---- MODULE Spec2Model ----
(***************************************************************************)
(* Job lifecycle of the Webhound backend: the jobs table (database.py),    *)
(* the HTTP handlers and the background task process_dataset (main.py),    *)
(* and the pipeline runner WebhoundCrewAI.create_dataset                   *)
(* (crewai_setup_working.py).                                              *)
(*                                                                         *)
(* Texts are sequences of one-character strings, so that substring tests,  *)
(* the regular expressions and the JSON encoding are computed, not         *)
(* assumed.  Python values are tagged records:                             *)
(*   [t |-> "null"], [t |-> "bool", b], [t |-> "int", n], [t |-> "str", s],*)
(*   [t |-> "list", xs], [t |-> "dict", kv]  (kv: sequence of <<key, v>>). *)
(***************************************************************************)
EXTENDS Integers, Sequences, FiniteSets, TLC

(***************************************************************************)
(* Bounds of the model.                                                    *)
(***************************************************************************)
MaxJobs == 2
MaxRatings == 2
MaxDeletes == 1
\* the days the clock of ClockSpec advances
MaxTime == 2
\* the largest days argument of a cleanup request
MaxDays == 1

(***************************************************************************)
(* Texts.                                                                  *)
(***************************************************************************)
\* the backquote character, which a TLA+ string cannot hold
BQ == "bq"

UpperChars == <<"A","B","C","D","E","F","G","H","I","J","K","L","M","N","O","P","Q","R","S","T","U","V","W","X","Y","Z">>
LowerChars == <<"a","b","c","d","e","f","g","h","i","j","k","l","m","n","o","p","q","r","s","t","u","v","w","x","y","z">>
DigitChars == <<"0","1","2","3","4","5","6","7","8","9">>

\* str.lower() on one character
LowerChar(c) ==
  IF \E i \in 1..26 : UpperChars[i] = c
  THEN LowerChars[CHOOSE i \in 1..26 : UpperChars[i] = c]
  ELSE c

\* str.lower()
LowerText(s) == [i \in 1..Len(s) |-> LowerChar(s[i])]

\* sub occurs in s starting at index i
IsPrefixAt(sub, s, i) ==
  /\ i >= 1
  /\ i + Len(sub) - 1 <= Len(s)
  /\ \A k \in 1..Len(sub) : s[i + k - 1] = sub[k]

\* Python's (sub in s) on strings
Contains(sub, s) == \E i \in 1..(Len(s) + 1) : IsPrefixAt(sub, s, i)

\* the slice s[a..b] (1-based, inclusive), empty when b < a
Slice(s, a, b) == IF b < a THEN <<>> ELSE SubSeq(s, a, b)

\* whitespace of the regular expression class \s and of str.strip()
IsSpace(c) == c \in {" ", "\n", "\t", "\r"}

\* str.strip()
Strip(s) ==
  IF \A i \in 1..Len(s) : IsSpace(s[i]) THEN <<>>
  ELSE LET a == CHOOSE i \in 1..Len(s) :
                  ~IsSpace(s[i]) /\ \A k \in 1..(i - 1) : IsSpace(s[k])
           b == CHOOSE i \in 1..Len(s) :
                  ~IsSpace(s[i]) /\ \A k \in (i + 1)..Len(s) : IsSpace(s[k])
       IN SubSeq(s, a, b)

IsDigit(c) == \E i \in 1..10 : DigitChars[i] = c
DigitValue(c) == (CHOOSE i \in 1..10 : DigitChars[i] = c) - 1

\* str(n) for an integer
RECURSIVE NatText(_)
NatText(n) ==
  IF n < 10 THEN <<DigitChars[n + 1]>>
  ELSE NatText(n \div 10) \o <<DigitChars[(n % 10) + 1]>>
IntText(n) == IF n < 0 THEN <<"-">> \o NatText(0 - n) ELSE NatText(n)

(***************************************************************************)
(* Python values.                                                          *)
(***************************************************************************)
PyNone == [t |-> "null"]
PyBool(b) == [t |-> "bool", b |-> b]
PyInt(n) == [t |-> "int", n |-> n]
PyStr(s) == [t |-> "str", s |-> s]
PyList(xs) == [t |-> "list", xs |-> xs]
PyDict(kv) == [t |-> "dict", kv |-> kv]

\* (key in d) for a dict d
HasKey(d, key) == \E i \in 1..Len(d.kv) : d.kv[i][1] = key

\* d.get(key, default)
DictGet(d, key, default) ==
  IF HasKey(d, key)
  THEN d.kv[CHOOSE i \in 1..Len(d.kv) : d.kv[i][1] = key][2]
  ELSE default

\* d[key] = v : replaces in place, or appends a new key
DictSet(d, key, v) ==
  IF HasKey(d, key)
  THEN PyDict([i \in 1..Len(d.kv) |->
                 IF d.kv[i][1] = key THEN <<key, v>> ELSE d.kv[i]])
  ELSE PyDict(Append(d.kv, <<key, v>>))

\* bool(v)
Truthy(v) ==
  CASE v.t = "null" -> FALSE
    [] v.t = "bool" -> v.b
    [] v.t = "int" -> v.n # 0
    [] v.t = "str" -> Len(v.s) > 0
    [] v.t = "list" -> Len(v.xs) > 0
    [] v.t = "dict" -> Len(v.kv) > 0

\* type(v).__name__
TypeName(v) ==
  CASE v.t = "null" -> <<"N","o","n","e","T","y","p","e">>
    [] v.t = "bool" -> <<"b","o","o","l">>
    [] v.t = "int" -> <<"i","n","t">>
    [] v.t = "str" -> <<"s","t","r">>
    [] v.t = "list" -> <<"l","i","s","t">>
    [] v.t = "dict" -> <<"d","i","c","t">>

(***************************************************************************)
(* json.dumps with the default separators.                                 *)
(***************************************************************************)
\* the characters json.dumps writes with a backslash
Escaped == {"\"", "\\", "\n", "\t", "\r"}

\* index of the first character of Escaped at or after i, or Len(s) + 1
PlainEnd(s, i) ==
  CHOOSE k \in i..(Len(s) + 1) :
    /\ \A m \in i..(k - 1) : s[m] \notin Escaped
    /\ (k = Len(s) + 1 \/ s[k] \in Escaped)

EscapeChar(c) ==
  CASE c = "\"" -> <<"\\", "\"">>
    [] c = "\\" -> <<"\\", "\\">>
    [] c = "\n" -> <<"\\", "n">>
    [] c = "\t" -> <<"\\", "t">>
    [] c = "\r" -> <<"\\", "r">>
    [] OTHER -> <<c>>

\* the text with its characters escaped: the plain run up to index k, the
\* escape of the character at k, and the rest
RECURSIVE EscapeText(_), EscapeFrom(_, _)
EscapeFrom(s, k) ==
  IF k > Len(s) THEN s
  ELSE SubSeq(s, 1, k - 1) \o EscapeChar(s[k])
         \o EscapeText(SubSeq(s, k + 1, Len(s)))
EscapeText(s) == IF s = <<>> THEN <<>> ELSE EscapeFrom(s, PlainEnd(s, 1))

QuotedText(s) == <<"\"">> \o EscapeText(s) \o <<"\"">>

RECURSIVE JsonDumps(_), DumpItems(_), DumpMembers(_)
JsonDumps(v) ==
  CASE v.t = "null" -> <<"n","u","l","l">>
    [] v.t = "bool" -> IF v.b THEN <<"t","r","u","e">> ELSE <<"f","a","l","s","e">>
    [] v.t = "int" -> IntText(v.n)
    [] v.t = "str" -> QuotedText(v.s)
    [] v.t = "list" -> <<"[">> \o DumpItems(v.xs) \o <<"]">>
    [] v.t = "dict" -> <<"{">> \o DumpMembers(v.kv) \o <<"}">>
DumpItems(xs) ==
  IF xs = <<>> THEN <<>>
  ELSE JsonDumps(Head(xs))
         \o (IF Len(xs) > 1 THEN <<",", " ">> ELSE <<>>)
         \o DumpItems(Tail(xs))
DumpMembers(kv) ==
  IF kv = <<>> THEN <<>>
  ELSE QuotedText(Head(kv)[1]) \o <<":", " ">> \o JsonDumps(Head(kv)[2])
         \o (IF Len(kv) > 1 THEN <<",", " ">> ELSE <<>>)
         \o DumpMembers(Tail(kv))

(***************************************************************************)
(* json.loads: a parse is [ok, v, i] (i: index after the value) or         *)
(* [ok |-> FALSE] for json.JSONDecodeError.  Numbers are integers.         *)
(***************************************************************************)
ParseFail == [ok |-> FALSE]
Parsed(v, i) == [ok |-> TRUE, v |-> v, i |-> i]

\* index of the first non-whitespace character at or after i
SkipSpace(s, i) ==
  CHOOSE k \in i..(Len(s) + 1) :
    /\ \A m \in i..(k - 1) : IsSpace(s[m])
    /\ (k = Len(s) + 1 \/ ~IsSpace(s[k]))

\* the body of a string literal whose opening quote is before index i: the
\* plain run up to index k is taken whole, then the quote, the escape or
\* the control character at k
RECURSIVE ScanString(_, _, _), ScanStringAt(_, _, _)
ScanStringAt(s, k, text) ==
  IF k > Len(s) THEN ParseFail
  ELSE CASE s[k] = "\"" -> Parsed(PyStr(text), k + 1)
         [] s[k] = "\\" ->
              IF k + 1 > Len(s) THEN ParseFail
              ELSE CASE s[k + 1] = "\"" -> ScanString(s, k + 2, Append(text, "\""))
                     [] s[k + 1] = "\\" -> ScanString(s, k + 2, Append(text, "\\"))
                     [] s[k + 1] = "/" -> ScanString(s, k + 2, Append(text, "/"))
                     [] s[k + 1] = "n" -> ScanString(s, k + 2, Append(text, "\n"))
                     [] s[k + 1] = "t" -> ScanString(s, k + 2, Append(text, "\t"))
                     [] s[k + 1] = "r" -> ScanString(s, k + 2, Append(text, "\r"))
                     [] OTHER -> ParseFail
         [] OTHER -> ParseFail
ScanEnd(s, i, k, acc) == ScanStringAt(s, k, acc \o SubSeq(s, i, k - 1))
ScanString(s, i, acc) == ScanEnd(s, i, PlainEnd(s, i), acc)

\* the digits of a number starting at index i
RECURSIVE ScanDigits(_, _, _)
ScanDigits(s, i, n) ==
  IF i <= Len(s) /\ IsDigit(s[i])
  THEN ScanDigits(s, i + 1, 10 * n + DigitValue(s[i]))
  ELSE Parsed(PyInt(n), i)

ScanNumber(s, i) ==
  LET neg == s[i] = "-"
      d == IF neg THEN i + 1 ELSE i
  IN IF d > Len(s) \/ ~IsDigit(s[d]) THEN ParseFail
     ELSE LET r == IF s[d] = "0" THEN Parsed(PyInt(0), d + 1)
                   ELSE ScanDigits(s, d, 0)
          IN IF neg THEN Parsed(PyInt(0 - r.v.n), r.i) ELSE r

RECURSIVE ParseValue(_, _), ParseItems(_, _, _), ParseMembers(_, _, _)
\* a value starting at index i (no leading whitespace)
ParseValue(s, i) ==
  IF i > Len(s) THEN ParseFail
  ELSE CASE s[i] = "{" ->
              LET j == SkipSpace(s, i + 1)
              IN IF j <= Len(s) /\ s[j] = "}" THEN Parsed(PyDict(<<>>), j + 1)
                 ELSE ParseMembers(s, j, PyDict(<<>>))
         [] s[i] = "[" ->
              LET j == SkipSpace(s, i + 1)
              IN IF j <= Len(s) /\ s[j] = "]" THEN Parsed(PyList(<<>>), j + 1)
                 ELSE ParseItems(s, j, <<>>)
         [] s[i] = "\"" -> ScanString(s, i + 1, <<>>)
         [] IsPrefixAt(<<"n","u","l","l">>, s, i) -> Parsed(PyNone, i + 4)
         [] IsPrefixAt(<<"t","r","u","e">>, s, i) -> Parsed(PyBool(TRUE), i + 4)
         [] IsPrefixAt(<<"f","a","l","s","e">>, s, i) -> Parsed(PyBool(FALSE), i + 5)
         [] s[i] = "-" \/ IsDigit(s[i]) -> ScanNumber(s, i)
         [] OTHER -> ParseFail

\* the items of an array, the next one starting at index i
ParseItems(s, i, acc) ==
  LET r == ParseValue(s, i)
  IN IF ~r.ok THEN ParseFail
     ELSE LET j == SkipSpace(s, r.i)
          IN IF j > Len(s) THEN ParseFail
             ELSE CASE s[j] = "]" -> Parsed(PyList(Append(acc, r.v)), j + 1)
                    [] s[j] = "," ->
                         ParseItems(s, SkipSpace(s, j + 1), Append(acc, r.v))
                    [] OTHER -> ParseFail

\* the members of an object, the next key starting at index i
ParseMembers(s, i, acc) ==
  IF i > Len(s) \/ s[i] # "\"" THEN ParseFail
  ELSE LET k == ScanString(s, i + 1, <<>>)
       IN IF ~k.ok THEN ParseFail
          ELSE LET c == SkipSpace(s, k.i)
               IN IF c > Len(s) \/ s[c] # ":" THEN ParseFail
                  ELSE LET r == ParseValue(s, SkipSpace(s, c + 1))
                       IN IF ~r.ok THEN ParseFail
                          ELSE LET d == DictSet(acc, k.v.s, r.v)
                                   j == SkipSpace(s, r.i)
                               IN IF j > Len(s) THEN ParseFail
                                  ELSE CASE s[j] = "}" -> Parsed(d, j + 1)
                                         [] s[j] = "," ->
                                              ParseMembers(s, SkipSpace(s, j + 1), d)
                                         [] OTHER -> ParseFail

\* json.loads(s): [ok |-> TRUE, v |-> value] or [ok |-> FALSE]
JsonLoads(s) ==
  LET r == ParseValue(s, SkipSpace(s, 1))
  IN IF ~r.ok THEN ParseFail
     ELSE IF SkipSpace(s, r.i) = Len(s) + 1 THEN [ok |-> TRUE, v |-> r.v]
          ELSE ParseFail

(***************************************************************************)
(* The two regular expressions, both searched with re.DOTALL.              *)
(***************************************************************************)
Fence == <<BQ,BQ,BQ>>
FenceEnd == <<"\n",BQ,BQ,BQ>>
JsonTag == <<"j","s","o","n">>

\* The code-block pattern: three backquotes, an optional json tag, \s*, a
\* newline, a lazy group (.*?), a newline, three backquotes.
\* the newlines that can end \s* when \s* starts at index a
FenceNewlines(s, a) ==
  {p \in a..Len(s) : s[p] = "\n" /\ \A k \in a..(p - 1) : IsSpace(s[k])}

\* the closing fences after the opening newline at p
FenceEnds(s, p) == {e \in (p + 1)..Len(s) : IsPrefixAt(FenceEnd, s, e)}

\* the rest of the pattern matches when \s* starts at index a
FenceCompletes(s, a) == \E p \in FenceNewlines(s, a) : FenceEnds(s, p) # {}

\* the pattern matches with its opening fence at index i
FenceMatchAt(s, i) ==
  /\ IsPrefixAt(Fence, s, i)
  /\ \/ IsPrefixAt(JsonTag, s, i + 3) /\ FenceCompletes(s, i + 7)
     \/ FenceCompletes(s, i + 3)

\* re.search of the code-block pattern with re.DOTALL: the match the
\* backtracking engine returns is the leftmost one, preferring the tag, then
\* the longest \s*, then the shortest group.  [found, group] is group(1).
CodeBlockSearch(s) ==
  LET starts == {i \in 1..Len(s) : FenceMatchAt(s, i)}
  IN IF starts = {} THEN [found |-> FALSE]
     ELSE LET i == CHOOSE x \in starts : \A y \in starts : x <= y
              a == IF IsPrefixAt(JsonTag, s, i + 3) /\ FenceCompletes(s, i + 7)
                   THEN i + 7 ELSE i + 3
              ps == {x \in FenceNewlines(s, a) : FenceEnds(s, x) # {}}
              p == CHOOSE x \in ps : \A y \in ps : x >= y
              e == CHOOSE x \in FenceEnds(s, p) :
                     \A y \in FenceEnds(s, p) : x <= y
          IN [found |-> TRUE, group |-> Slice(s, p + 1, e - 1)]

\* re.search of the brace pattern, an opening brace, a greedy .* and a
\* closing brace, with re.DOTALL: from the first "{" to the last "}"
BraceSearch(s) ==
  LET opens == {i \in 1..Len(s) : s[i] = "{"}
  IN IF opens = {} THEN [found |-> FALSE]
     ELSE LET i == CHOOSE x \in opens : \A y \in opens : x <= y
              closes == {j \in (i + 1)..Len(s) : s[j] = "}"}
          IN IF closes = {} THEN [found |-> FALSE]
             ELSE LET j == CHOOSE x \in closes : \A y \in closes : x >= y
                  IN [found |-> TRUE, group |-> SubSeq(s, i, j)]

(***************************************************************************)
(* Outcomes of Python code that may raise: the value, or the exception     *)
(* with its str(e).                                                        *)
(***************************************************************************)
Ok(v) == [exc |-> FALSE, v |-> v]
Raise(msg) == [exc |-> TRUE, msg |-> msg]

\* len(v)
PyLen(v) ==
  CASE v.t = "str" -> Ok(Len(v.s))
    [] v.t = "list" -> Ok(Len(v.xs))
    [] v.t = "dict" -> Ok(Len(v.kv))
    [] OTHER -> Raise(<<"o","b","j","e","c","t"," ","o","f"," ","t","y","p","e"," ","'">> \o TypeName(v) \o <<"'"," ","h","a","s"," ","n","o"," ","l","e","n","(",")">>)

\* v[0] for a non-empty v; a dict decoded from JSON has no key 0, and
\* str(KeyError(0)) is "0"
PyFirst(v) ==
  CASE v.t = "list" -> Ok(v.xs[1])
    [] v.t = "str" -> Ok(PyStr(<<v.s[1]>>))
    [] v.t = "dict" -> Raise(<<"0">>)
    [] OTHER -> Raise(<<"'">> \o TypeName(v) \o <<"'"," ","o","b","j","e","c","t"," ","i","s"," ","n","o","t"," ","s","u","b","s","c","r","i","p","t","a","b","l","e">>)

\* (key in v) for a text key
PyIn(key, v) ==
  CASE v.t = "dict" -> Ok(HasKey(v, key))
    [] v.t = "list" -> Ok(\E i \in 1..Len(v.xs) : v.xs[i] = PyStr(key))
    [] v.t = "str" -> Ok(Contains(key, v.s))
    [] OTHER ->
         Raise(<<"a","r","g","u","m","e","n","t"," ","o","f"," ","t","y","p","e"," ","'">> \o TypeName(v) \o <<"'"," ","i","s"," ","n","o","t"," ","i","t","e","r","a","b","l","e">>)

\* v[key] = x for a text key
PySetItem(v, key, x) ==
  CASE v.t = "dict" -> Ok(DictSet(v, key, x))
    [] v.t = "list" -> Raise(<<"l","i","s","t"," ","i","n","d","i","c","e","s"," ","m","u","s","t"," ","b","e"," ","i","n","t","e","g","e","r","s"," ","o","r"," ","s","l","i","c","e","s",","," ","n","o","t"," ","s","t","r">>)
    [] OTHER ->
         Raise(<<"'">> \o TypeName(v) \o <<"'"," ","o","b","j","e","c","t"," ","d","o","e","s"," ","n","o","t"," ","s","u","p","p","o","r","t"," ","i","t","e","m"," ","a","s","s","i","g","n","m","e","n","t">>)

\* repr(v) and str(v), for texts without quotes or backslashes
RECURSIVE PyRepr(_), ReprItems(_), ReprMembers(_)
PyRepr(v) ==
  CASE v.t = "null" -> <<"N","o","n","e">>
    [] v.t = "bool" -> IF v.b THEN <<"T","r","u","e">> ELSE <<"F","a","l","s","e">>
    [] v.t = "int" -> IntText(v.n)
    [] v.t = "str" -> <<"'">> \o EscapeText(v.s) \o <<"'">>
    [] v.t = "list" -> <<"[">> \o ReprItems(v.xs) \o <<"]">>
    [] v.t = "dict" -> <<"{">> \o ReprMembers(v.kv) \o <<"}">>
ReprItems(xs) ==
  IF xs = <<>> THEN <<>>
  ELSE PyRepr(Head(xs))
         \o (IF Len(xs) > 1 THEN <<",", " ">> ELSE <<>>)
         \o ReprItems(Tail(xs))
ReprMembers(kv) ==
  IF kv = <<>> THEN <<>>
  ELSE PyRepr(PyStr(Head(kv)[1])) \o <<":", " ">> \o PyRepr(Head(kv)[2])
         \o (IF Len(kv) > 1 THEN <<",", " ">> ELSE <<>>)
         \o ReprMembers(Tail(kv))
PyToStr(v) == IF v.t = "str" THEN v.s ELSE PyRepr(v)

(***************************************************************************)
(* Names and literals of the program.                                      *)
(***************************************************************************)
KData == <<"d","a","t","a">>
KSources == <<"s","o","u","r","c","e","s">>
KValidationStatus == <<"v","a","l","i","d","a","t","i","o","n","_","s","t","a","t","u","s">>
KQualityScore == <<"q","u","a","l","i","t","y","_","s","c","o","r","e">>
KValidationNotes == <<"v","a","l","i","d","a","t","i","o","n","_","n","o","t","e","s">>
KResult == <<"r","e","s","u","l","t">>
KQuery == <<"q","u","e","r","y">>

Processing == PyStr(<<"p","r","o","c","e","s","s","i","n","g">>)
Completed == PyStr(<<"c","o","m","p","l","e","t","e","d">>)
Failed == PyStr(<<"f","a","i","l","e","d">>)
QuotaExceeded == PyStr(<<"q","u","o","t","a","_","e","x","c","e","e","d","e","d">>)
Unknown == PyStr(<<"u","n","k","n","o","w","n">>)
GoodDog == PyStr(<<"g","o","o","d","_","d","o","g">>)
BadDog == PyStr(<<"b","a","d","_","d","o","g">>)
EmptyList == PyList(<<>>)
EmptyDict == PyDict(<<>>)

TerminalStatuses == {Completed, Failed, QuotaExceeded}

\* the keyword list of both quota checks
QuotaKeywords ==
  { <<"q","u","o","t","a">>, <<"4","2","9">>, <<"r","e","s","o","u","r","c","e","e","x","h","a","u","s","t","e","d">>, <<"r","a","t","e"," ","l","i","m","i","t">>, <<"e","x","c","e","e","d","e","d">> }

(***************************************************************************)
(* Pipeline runner: WebhoundCrewAI.create_dataset.                         *)
(***************************************************************************)
\* the five-field mapping the runner builds
RunnerPayload(data, status, notes) ==
  PyDict(<< <<KData, data>>,
            <<KSources, EmptyList>>,
            <<KValidationStatus, status>>,
            <<KQualityScore, Unknown>>,
            <<KValidationNotes, PyStr(notes)>> >>)

\* data: [{"query": query, "result": text}]
RunnerTextRecord(query, text) ==
  PyList(<< PyDict(<< <<KQuery, PyStr(query)>>, <<KResult, PyStr(text)>> >>) >>)

\* the keyword test of the runner's except branch
RunnerIsQuotaError(error_message) ==
  \E keyword \in QuotaKeywords : Contains(keyword, LowerText(error_message))

\* the runner's except branch: the error becomes a returned mapping
RunnerErrorPayload(error_message) ==
  IF RunnerIsQuotaError(error_message)
  THEN RunnerPayload(EmptyList, QuotaExceeded,
                     <<"A","P","I"," ","q","u","o","t","a"," ","e","x","c","e","e","d","e","d",":"," ">> \o error_message)
  ELSE RunnerPayload(EmptyList, Failed, <<"E","r","r","o","r",":"," ">> \o error_message)

\* "if key not in parsed_result: parsed_result[key] = default", one field
EnsureField(r, key, default) ==
  IF r.exc THEN r
  ELSE LET has == PyIn(key, r.v)
       IN IF has.exc THEN Raise(has.msg)
          ELSE IF has.v THEN r
               ELSE PySetItem(r.v, key, default)

\* "Ensure all required fields are present"
EnsureFields(parsed_result) ==
  EnsureField(
    EnsureField(
      EnsureField(
        EnsureField(
          EnsureField(Ok(parsed_result), KData, EmptyList),
          KSources, EmptyList),
        KValidationStatus, Completed),
      KQualityScore, Unknown),
    KValidationNotes, PyStr(<<>>))

\* the JSON text the runner finds in str(result.raw): [found, text]
RunnerJsonText(raw) ==
  LET code_block_match == CodeBlockSearch(raw)
  IN IF code_block_match.found
     THEN [found |-> TRUE, text |-> Strip(code_block_match.group)]
     ELSE LET json_match == BraceSearch(raw)
          IN IF json_match.found
             THEN [found |-> TRUE, text |-> json_match.group]
             ELSE [found |-> FALSE]

\* the mapping returned once the JSON text was decoded: the result with its
\* missing fields added, or the except branch for an error raised on the way
RunnerEnsured(ensured) ==
  IF ensured.exc THEN RunnerErrorPayload(ensured.msg) ELSE ensured.v

\* json.loads of the JSON text, and the fallback of its JSONDecodeError
RunnerLoaded(query, raw, loaded) ==
  IF ~loaded.ok
  THEN RunnerPayload(RunnerTextRecord(query, raw), Completed,
                     <<"J","S","O","N"," ","p","a","r","s","i","n","g"," ","f","a","i","l","e","d",","," ","b","u","t"," ","w","o","r","k","f","l","o","w"," ","c","o","m","p","l","e","t","e","d">>)
  ELSE RunnerEnsured(EnsureFields(loaded.v))

\* the branch on whether a JSON text was found in raw
RunnerParsed(query, raw, found) ==
  IF ~found.found
  THEN RunnerPayload(RunnerTextRecord(query, raw), Completed,
                     <<"N","o"," ","J","S","O","N"," ","f","o","u","n","d"," ","i","n"," ","r","e","s","u","l","t">>)
  ELSE RunnerLoaded(query, raw, JsonLoads(found.text))

\* create_dataset(query) when crew.kickoff() ends as kickoff:
\*   [kind |-> "raw", text]   a result whose .raw is a non-empty text
\*   [kind |-> "noraw", text] a result without .raw, text being str(result)
\*   [kind |-> "exc", msg]    kickoff raised, msg being str(e)
CreateDataset(query, kickoff) ==
  CASE kickoff.kind = "exc" -> RunnerErrorPayload(kickoff.msg)
    [] kickoff.kind = "noraw" ->
         RunnerPayload(RunnerTextRecord(query, kickoff.text), Completed,
                       <<"W","o","r","k","f","l","o","w"," ","c","o","m","p","l","e","t","e","d"," ","s","u","c","c","e","s","s","f","u","l","l","y">>)
    [] kickoff.kind = "raw" ->
         RunnerParsed(query, kickoff.text, RunnerJsonText(kickoff.text))

(***************************************************************************)
(* JobDatabase.update_job: the binding of the keyword arguments.           *)
(***************************************************************************)
\* the value update_job binds for one keyword argument: lists and dicts of
\* the three JSON columns are serialized, sqlite3 binds None, int and str,
\* and refuses any other list or dict
BindValue(key, value) ==
  IF key \in {"dataset", "sources", "raw_data"} /\ value.t \in {"list", "dict"}
  THEN Ok(PyStr(JsonDumps(value)))
  ELSE CASE value.t \in {"null", "int", "str"} -> Ok(value)
         [] value.t = "bool" -> Ok(PyInt(IF value.b THEN 1 ELSE 0))
         [] OTHER -> Raise(<<>>)

\* str(e) of the sqlite3 error for the first argument that cannot be bound
BindError(kwargs) ==
  LET bad == {i \in 1..Len(kwargs) : BindValue(kwargs[i][1], kwargs[i][2]).exc}
      first == CHOOSE i \in bad : \A k \in bad : i <= k
  IN <<"E","r","r","o","r"," ","b","i","n","d","i","n","g"," ","p","a","r","a","m","e","t","e","r"," ">> \o IntText(first - 1)
       \o <<" ","-"," ","p","r","o","b","a","b","l","y"," ","u","n","s","u","p","p","o","r","t","e","d"," ","t","y","p","e",".">>

\* the column assignments of the UPDATE statement: Ok(<<column, value>>...),
\* or the error execute() raises
BindKwargs(kwargs) ==
  IF \E i \in 1..Len(kwargs) : BindValue(kwargs[i][1], kwargs[i][2]).exc
  THEN Raise(BindError(kwargs))
  ELSE Ok([i \in 1..Len(kwargs) |->
             <<kwargs[i][1], BindValue(kwargs[i][1], kwargs[i][2]).v>>])

\* get_job decoding one JSON column: Ok(value), or the TypeError json.loads
\* raises for a column that holds a number
DecodeColumn(col, default) ==
  IF ~Truthy(col) THEN Ok(col)
  ELSE IF col.t # "str"
       THEN Raise(<<"t","h","e"," ","J","S","O","N"," ","o","b","j","e","c","t"," ","m","u","s","t"," ","b","e"," ","s","t","r",","," ","b","y","t","e","s"," ","o","r"," ","b","y","t","e","a","r","r","a","y",","," ","n","o","t"," ">>
                    \o TypeName(col))
       ELSE LET loaded == JsonLoads(col.s)
            IN IF loaded.ok THEN Ok(loaded.v) ELSE Ok(default)

(***************************************************************************)
(* Background task: process_dataset.                                       *)
(***************************************************************************)
\* the keyword arguments of the three terminal update_job calls, in order
StatusUpdate(status, dataset, sources, total_records, validation_status, quality_score, validation_notes) ==
  << <<"status", status>>,
     <<"dataset", dataset>>,
     <<"sources", sources>>,
     <<"total_records", total_records>>,
     <<"validation_status", validation_status>>,
     <<"quality_score", quality_score>>,
     <<"validation_notes", validation_notes>> >>

\* faulty variant of step 2: the raw data goes to the dataset column
RawDataAsDataset(dataset) == << <<"dataset", dataset>> >>

\* Step 2: update_job(job_id, raw_data=dataset)
RawDataUpdate(dataset) == << <<"raw_data", dataset>> >>

\* Step 3, first part: the quota check on the returned result
IsQuotaResult(dataset) ==
  dataset.t = "dict" /\ DictGet(dataset, KValidationStatus, PyNone) = QuotaExceeded

\* the update of the quota branch of the try block
QuotaResultUpdate ==
  StatusUpdate(QuotaExceeded, EmptyList, EmptyList, PyInt(0), QuotaExceeded,
               Unknown,
               PyStr(<<"A","P","I"," ","q","u","o","t","a"," ","e","x","c","e","e","d","e","d","."," ","P","l","e","a","s","e"," ","t","r","y"," ","a","g","a","i","n"," ","l","a","t","e","r"," ","o","r"," ","u","p","g","r","a","d","e"," ","y","o","u","r"," ","p","l","a","n",".">>))

Parsed5(parsed_data, sources, validation_status, quality_score, validation_notes) ==
  [ parsed_data |-> parsed_data, sources |-> sources,
    validation_status |-> validation_status, quality_score |-> quality_score,
    validation_notes |-> validation_notes ]

\* "use original structure": the five values taken from the returned mapping
OriginalStructure(dataset, raw_data) ==
  Parsed5(raw_data,
          DictGet(dataset, KSources, EmptyList),
          DictGet(dataset, KValidationStatus, Completed),
          DictGet(dataset, KQualityScore, Unknown),
          DictGet(dataset, KValidationNotes, PyStr(<<>>)))

\* the five values taken from the JSON of a code block; .get of a value that
\* is no dict raises AttributeError
FromParsedJson(parsed_json) ==
  IF parsed_json.t # "dict"
  THEN Raise(<<"'">> \o TypeName(parsed_json) \o <<"'"," ","o","b","j","e","c","t"," ","h","a","s"," ","n","o"," ","a","t","t","r","i","b","u","t","e"," ","'","g","e","t","'">>)
  ELSE Ok(Parsed5(DictGet(parsed_json, KData, EmptyList),
                  DictGet(parsed_json, KSources, EmptyList),
                  DictGet(parsed_json, KValidationStatus, Completed),
                  DictGet(parsed_json, KQualityScore, Unknown),
                  DictGet(parsed_json, KValidationNotes, PyStr(<<>>))))

\* faulty variant of the code-block branch: the decoded JSON is ignored
FromLoadedIgnored(dataset, raw_data, loaded) == Ok(OriginalStructure(dataset, raw_data))

\* the try around json.loads of the code block, with its JSONDecodeError
\* fallback to the original structure
FromLoaded(dataset, raw_data, loaded) ==
  IF ~loaded.ok THEN Ok(OriginalStructure(dataset, raw_data))
  ELSE FromParsedJson(loaded.v)

\* the branch on the match of the code-block pattern
FromCodeBlock(dataset, raw_data, code_block_match) ==
  IF ~code_block_match.found THEN Ok(OriginalStructure(dataset, raw_data))
  ELSE FromLoaded(dataset, raw_data, JsonLoads(Strip(code_block_match.group)))

\* the markdown branch: first_item has a result field; re.search of a value
\* that is no text raises TypeError
FromResultField(dataset, raw_data, result_str) ==
  IF result_str.t # "str"
  THEN Raise(<<"e","x","p","e","c","t","e","d"," ","s","t","r","i","n","g"," ","o","r"," ","b","y","t","e","s","-","l","i","k","e"," ","o","b","j","e","c","t">>)
  ELSE FromCodeBlock(dataset, raw_data, CodeBlockSearch(result_str.s))

\* faulty variant of step 3: no record is made of the result
ParseResultNoRecord(query, dataset) ==
  Ok(Parsed5(EmptyList, EmptyList, Completed, Unknown, PyStr(<<>>)))

\* Step 3, second part: "Parse the result structure", Ok(the five values) or
\* the exception raised on the way
ParseResult(query, dataset) ==
  IF dataset.t # "dict"
  THEN Ok(Parsed5(
            PyList(<< PyDict(<< <<KQuery, PyStr(query)>>,
                                <<KResult, PyStr(PyToStr(dataset))>> >>) >>),
            EmptyList, Completed, Unknown, PyStr(<<"P","r","o","c","e","s","s","i","n","g"," ","c","o","m","p","l","e","t","e","d">>)))
  ELSE LET raw_data == DictGet(dataset, KData, EmptyList)
       IN IF ~Truthy(raw_data) THEN Ok(OriginalStructure(dataset, raw_data))
          ELSE LET n == PyLen(raw_data)
               IN IF n.exc THEN Raise(n.msg)
                  ELSE LET first_item == PyFirst(raw_data)
                       IN IF first_item.exc THEN Raise(first_item.msg)
                          ELSE IF first_item.v.t = "dict"
                                    /\ HasKey(first_item.v, KResult)
                               THEN FromResultField(dataset, raw_data,
                                      DictGet(first_item.v, KResult, PyNone))
                               ELSE Ok(OriginalStructure(dataset, raw_data))

\* Step 4: the arguments of the completing update_job call for the five
\* parsed values, or the exception raised by the parsing or by
\* len(parsed_data)
CompletedFrom(parsed) ==
  IF parsed.exc THEN Raise(parsed.msg)
  ELSE LET n == PyLen(parsed.v.parsed_data)
       IN IF n.exc THEN Raise(n.msg)
          ELSE Ok(StatusUpdate(Completed, parsed.v.parsed_data,
                               parsed.v.sources, PyInt(n.v),
                               parsed.v.validation_status,
                               parsed.v.quality_score,
                               parsed.v.validation_notes))

CompletedUpdate(query, dataset) == CompletedFrom(ParseResult(query, dataset))

\* the completing update_job call raises when a value cannot be bound (an
\* update_job call that raises has changed nothing)
CompletedBound(done) ==
  IF done.exc THEN done
  ELSE LET bound == BindKwargs(done.v)
       IN IF bound.exc THEN Raise(bound.msg) ELSE done

\* the try block after step 2: Ok(the arguments of the update_job call it
\* makes), or the exception that takes it to the except branch
TryBlock(query, dataset) ==
  IF IsQuotaResult(dataset) THEN Ok(QuotaResultUpdate)
  ELSE CompletedBound(CompletedUpdate(query, dataset))

\* faulty variant of the keyword test: the list lacks "429"
IsQuotaErrorNo429(error_message) ==
  \E keyword \in QuotaKeywords \ { <<"4","2","9">> } :
    Contains(keyword, LowerText(error_message))

\* the keyword test of the except branch
IsQuotaError(error_message) ==
  \E keyword \in QuotaKeywords : Contains(keyword, LowerText(error_message))

\* faulty variant of the except branch: the error is stored as a record
ErrorUpdateWithRecord(error_message) ==
  StatusUpdate(Failed,
               PyList(<< PyDict(<< <<KResult, PyStr(error_message)>> >>) >>),
               PyList(<< PyStr(error_message) >>), PyInt(1), Failed, Unknown,
               PyStr(<<"E","r","r","o","r",":"," ">> \o error_message))

\* faulty variant of the except branch: the status is left as it was
ErrorUpdateStaysProcessing(error_message) ==
  StatusUpdate(Processing, EmptyList, EmptyList, PyInt(0), Failed, Unknown,
               PyStr(<<"E","r","r","o","r",":"," ">> \o error_message))

\* the update of the except branch for the exception text error_message
ErrorUpdate(error_message) ==
  IF IsQuotaError(error_message)
  THEN StatusUpdate(QuotaExceeded, EmptyList, EmptyList, PyInt(0), QuotaExceeded,
                    Unknown,
                    PyStr(<<"A","P","I"," ","q","u","o","t","a"," ","e","x","c","e","e","d","e","d",":"," ">> \o error_message
                            \o <<"."," ","P","l","e","a","s","e"," ","t","r","y"," ","a","g","a","i","n"," ","l","a","t","e","r"," ","o","r"," ","u","p","g","r","a","d","e"," ","y","o","u","r"," ","p","l","a","n",".">>))
  ELSE StatusUpdate(Failed, EmptyList, EmptyList, PyInt(0), Failed, Unknown,
                    PyStr(<<"E","r","r","o","r",":"," ">> \o error_message))

(***************************************************************************)
(* Inputs.                                                                 *)
(***************************************************************************)
Queries == { <<"q">> }

\* what crew.kickoff() may produce
KickQuota == [kind |-> "exc", msg |-> <<"H","T","T","P"," ","4","2","9">>]
KickRateLimit == [kind |-> "exc", msg |-> <<"R","a","t","e"," ","L","i","m","i","t"," ","h","i","t">>]
KickBoom == [kind |-> "exc", msg |-> <<"b","o","o","m">>]
KickFenced ==
  [kind |-> "raw",
   text |-> <<BQ,BQ,BQ,"j","s","o","n","\n","{","\"","d","a","t","a","\"",":"," ","[","{","\"","a","\"",":"," ","1","}","]",","," ","\"","s","o","u","r","c","e","s","\"",":"," ","[","\"","u","\"","]","}","\n",BQ,BQ,BQ>>]
KickProse == [kind |-> "raw", text |-> <<"h","i">>]
KickBadResult ==
  [kind |-> "raw", text |-> <<BQ,BQ,BQ,"\n","{","\"","d","a","t","a","\"",":"," ","[","{","\"","r","e","s","u","l","t","\"",":"," ","5","}","]","}","\n",BQ,BQ,BQ>>]
\* a JSON text, not an object, that names the five fields: the runner
\* returns the text it parsed
KickText ==
  [kind |-> "raw",
   text |-> <<BQ,BQ,BQ,"\n","\"","d","a","t","a"," ","s","o","u","r","c","e","s"," ","v","a","l","i","d","a","t","i","o","n","_","s","t","a","t","u","s"," ","q","u","a","l","i","t","y","_","s","c","o","r","e"," ","v","a","l","i","d","a","t","i","o","n","_","n","o","t","e","s","\"","\n",BQ,BQ,BQ>>]
KickNoRaw == [kind |-> "noraw", text |-> <<BQ,BQ,BQ,"\n","[","1","]","\n",BQ,BQ,BQ>>]
Kickoffs ==
  {KickQuota, KickRateLimit, KickBoom, KickFenced, KickProse, KickBadResult,
   KickText, KickNoRaw}

\* a JSON object whose first data element carries, as its result text, a
\* fenced JSON object of its own
KickNested ==
  [kind |-> "raw",
   text |-> <<BQ,BQ,BQ,"j","s","o","n","\n","{","\"","d","a","t","a","\"",":"," ","[","{","\"","r","e","s","u","l","t","\"",":"," ","\"",BQ,BQ,BQ,"j","s","o","n","\\","n","{","\\","\"","d","a","t","a","\\","\"",":"," ","[","{","\\","\"","a","\\","\"",":"," ","1","}","]",","," ","\\","\"","s","o","u","r","c","e","s","\\","\"",":"," ","[","\\","\"","u","\\","\"","]","}","\\","n",BQ,BQ,BQ,"\"","}","]",","," ","\"","s","o","u","r","c","e","s","\"",":"," ","[","\"","o","\"","]",","," ","\"","q","u","a","l","i","t","y","_","s","c","o","r","e","\"",":"," ","\"","h","i","g","h","\"",","," ","\"","v","a","l","i","d","a","t","i","o","n","_","n","o","t","e","s","\"",":"," ","\"","o","u","t","e","r","\"","}","\n",BQ,BQ,BQ>>]
\* a JSON object whose first data element has a result text without JSON
KickPlainResult ==
  [kind |-> "raw", text |-> <<BQ,BQ,BQ,"\n","{","\"","d","a","t","a","\"",":"," ","[","{","\"","r","e","s","u","l","t","\"",":"," ","\"","h","i","\"","}","]","}","\n",BQ,BQ,BQ>>]
\* a JSON object whose first data element has, as its result text, a JSON
\* object in braces without a fence
KickBraces ==
  [kind |-> "raw",
   text |-> <<BQ,BQ,BQ,"\n","{","\"","d","a","t","a","\"",":"," ","[","{","\"","r","e","s","u","l","t","\"",":"," ","\"","{","\\","\"","d","a","t","a","\\","\"",":"," ","[","1","]","}","\"","}","]","}","\n",BQ,BQ,BQ>>]
\* a fenced block that is not JSON
KickBadFence == [kind |-> "raw", text |-> <<BQ,BQ,BQ,"\n","{","x","\n",BQ,BQ,BQ>>]
\* a JSON object whose data is a text, not a list
KickDataText ==
  [kind |-> "raw", text |-> <<BQ,BQ,BQ,"\n","{","\"","d","a","t","a","\"",":"," ","\"","a","b","c","\"","}","\n",BQ,BQ,BQ>>]
\* results for step 3 to parse: a result text in the first data element,
\* or a data value of another shape
Extractions == {KickNested, KickPlainResult, KickBraces, KickBadFence, KickDataText}

\* exceptions raised out of create_dataset_async: the constructor's
\* ValueError, and an error of the libraries it calls
ErrNoKey == <<"G","E","M","I","N","I","_","A","P","I","_","K","E","Y"," ","n","o","t"," ","f","o","u","n","d"," ","i","n"," ","e","n","v","i","r","o","n","m","e","n","t"," ","v","a","r","i","a","b","l","e","s">>
ErrQuota == <<"4","2","9"," ","R","E","S","O","U","R","C","E","_","E","X","H","A","U","S","T","E","D">>
RaisedErrors == {ErrNoKey, ErrQuota}

\* the rating texts a request may carry
Ratings == {GoodDog, BadDog, PyStr(<<"m","e","h">>)}

(***************************************************************************)
(* One run of process_dataset, computed once for every input: what the     *)
(* pipeline call gives, the arguments the step 2 update_job call binds,    *)
(* the exception the except branch catches, and the arguments the          *)
(* status-setting update_job call binds.                                   *)
(***************************************************************************)
\* how the pipeline call of a task ends: crew.kickoff() ended as a kickoff
\* inside the runner, or the call raised error_message
Outcomes ==
  Kickoffs \cup Extractions \cup {[kind |-> "raised", msg |-> e] : e \in RaisedErrors}

\* the end of the run: caught is Ok(the arguments of the update_job call the
\* try block made) or the exception that took it to the except branch
RunEnd(dataset, raw_data, caught) ==
  [ dataset |-> dataset,
    raw_data |-> raw_data,
    caught |-> caught,
    status |-> BindKwargs(IF caught.exc THEN ErrorUpdate(caught.msg) ELSE caught.v) ]

\* after step 2: a failed binding of the raw data goes to the except branch
RunSaved(query, dataset, raw_data) ==
  RunEnd(dataset, raw_data,
         IF raw_data.exc THEN Raise(raw_data.msg) ELSE TryBlock(query, dataset))

\* after step 1 returned dataset
RunReturned(query, dataset) ==
  RunSaved(query, dataset, BindKwargs(RawDataUpdate(dataset)))

\* process_dataset(job_id, query) when its pipeline call ends as outcome; a
\* call that raised leaves no dataset, and step 2 is not reached
ProcessDataset(query, outcome) ==
  IF outcome.kind = "raised"
  THEN RunEnd(PyNone, Raise(outcome.msg), Raise(outcome.msg))
  ELSE RunReturned(query, CreateDataset(query, outcome))

Runs == [query \in Queries, outcome \in Outcomes |-> ProcessDataset(query, outcome)]

\* what one run stores in the three JSON columns
RunStored(run) ==
  {run.status.v[2][2], run.status.v[3][2]}
    \cup (IF run.raw_data.exc THEN {} ELSE {run.raw_data.v[1][2]})

\* what the three JSON columns may hold, and what get_job decodes from it
StoredJson == {PyNone} \cup UNION {RunStored(Runs[x]) : x \in Queries \X Outcomes}

Decoded ==
  [col \in StoredJson, default \in {EmptyList, EmptyDict} |-> DecodeColumn(col, default)]

(***************************************************************************)
(* State.                                                                  *)
(***************************************************************************)
VARIABLES
  jobs,       \* the jobs table: job id -> row, or NoRow
  task,       \* the background task of each job id: pc and its locals
  writes,     \* history: the update_job calls each task has made, in order
  ratingLog,  \* history: the ratings the store applied to each job
  deleted,    \* history: the job ids whose row was deleted
  now,        \* the clock read by datetime.now(), in days; the operations
              \* of Spec are taken at one reading of it
  response    \* history: the last answer a client of ApiSpec or ClockSpec
              \* was given; Spec does not observe the answers

vars == <<jobs, task, writes, ratingLog, deleted, now, response>>

(***************************************************************************)
(* Job store: the jobs table and JobDatabase.                              *)
(***************************************************************************)
JobIds == 1..MaxJobs

NoRow == [absent |-> TRUE]

\* create_job: the inserted row; unnamed columns take their defaults
NewRow(query, at) ==
  [ query |-> PyStr(query), status |-> Processing,
    dataset |-> PyNone, sources |-> PyNone, raw_data |-> PyNone,
    total_records |-> PyInt(0),
    validation_status |-> PyNone, quality_score |-> PyNone,
    validation_notes |-> PyNone,
    user_rating |-> PyNone, rating_timestamp |-> PyNone,
    created_at |-> PyInt(at), updated_at |-> PyInt(at) ]

Exists(tbl, job_id) == tbl[job_id] # NoRow

RECURSIVE SetColumns(_, _)
SetColumns(row, bound) ==
  IF bound = <<>> THEN row
  ELSE SetColumns([row EXCEPT ![Head(bound)[1]] = Head(bound)[2]], Tail(bound))

\* faulty variant of update_job: created_at is stamped as well
UpdateJobRestamps(tbl, job_id, bound, at) ==
  IF bound.exc THEN Raise(bound.msg)
  ELSE IF ~Exists(tbl, job_id) THEN Ok(tbl)
       ELSE Ok([tbl EXCEPT ![job_id] =
                  [SetColumns(tbl[job_id], bound.v) EXCEPT !.updated_at = PyInt(at),
                                                           !.created_at = PyInt(at)]])

\* faulty variant of update_job: the UPDATE has no WHERE clause
UpdateJobEveryRow(tbl, job_id, bound, at) ==
  IF bound.exc THEN Raise(bound.msg)
  ELSE Ok([k \in JobIds |->
             IF ~Exists(tbl, k) THEN tbl[k]
             ELSE [SetColumns(tbl[k], bound.v) EXCEPT !.updated_at = PyInt(at)]])

\* faulty variant of update_job: the statement is applied in two parts, and
\* only the first, which sets the status, has been applied
UpdateJobTorn(tbl, job_id, bound, at) ==
  IF bound.exc THEN Raise(bound.msg)
  ELSE IF ~Exists(tbl, job_id) THEN Ok(tbl)
       ELSE Ok([tbl EXCEPT ![job_id] =
                  [SetColumns(tbl[job_id], <<Head(bound.v)>>) EXCEPT !.updated_at = PyInt(at)]])

\* faulty variant of update_job: the row is written anew, without its rating
UpdateJobForgetsRating(tbl, job_id, bound, at) ==
  IF bound.exc THEN Raise(bound.msg)
  ELSE IF ~Exists(tbl, job_id) THEN Ok(tbl)
       ELSE Ok([tbl EXCEPT ![job_id] =
                  [SetColumns(tbl[job_id], bound.v) EXCEPT !.updated_at = PyInt(at),
                                                           !.user_rating = PyNone,
                                                           !.rating_timestamp = PyNone]])

\* faulty variant of update_job: a row that is missing is inserted
UpdateJobUpserts(tbl, job_id, bound, at) ==
  IF bound.exc THEN Raise(bound.msg)
  ELSE Ok([tbl EXCEPT ![job_id] =
             [SetColumns(IF Exists(tbl, job_id) THEN tbl[job_id] ELSE NewRow(<<>>, at),
                         bound.v) EXCEPT !.updated_at = PyInt(at)]])

\* update_job(job_id, **kwargs) at time at, bound being the column
\* assignments of kwargs: Ok(table) or the error raised; an UPDATE of an id
\* without a row changes nothing
UpdateJob(tbl, job_id, bound, at) ==
  IF bound.exc THEN Raise(bound.msg)
  ELSE IF ~Exists(tbl, job_id) THEN Ok(tbl)
       ELSE Ok([tbl EXCEPT ![job_id] =
                  [SetColumns(tbl[job_id], bound.v) EXCEPT !.updated_at = PyInt(at)]])

\* the dict get_job returns for a row whose JSON columns decode to
\* dataset, sources and raw_data, or the exception of a decoding
GetJobDecoded(row, dataset, sources, raw_data) ==
  IF dataset.exc \/ sources.exc \/ raw_data.exc
  THEN [found |-> TRUE, exc |-> TRUE]
  ELSE [found |-> TRUE, exc |-> FALSE,
        job |-> [row EXCEPT !.dataset = dataset.v,
                            !.sources = sources.v,
                            !.raw_data = raw_data.v]]

\* the three JSON columns of a row, decoded
DecodeRow(row, decode) ==
  GetJobDecoded(row, decode[row.dataset, EmptyList],
                decode[row.sources, EmptyList], decode[row.raw_data, EmptyDict])

\* get_job(job_id): [found |-> FALSE] for None, else the decoded dict or the
\* exception
GetJob(tbl, job_id) ==
  IF ~Exists(tbl, job_id) THEN [found |-> FALSE]
  ELSE DecodeRow(tbl[job_id], Decoded)

\* faulty variant of delete_job: the DELETE has no WHERE clause
DeleteRowEveryRow(tbl, job_id) == [k \in JobIds |-> NoRow]

\* delete_job(job_id): the table after the DELETE
DeleteRow(tbl, job_id) == [tbl EXCEPT ![job_id] = NoRow]

\* faulty variant of rate_job: a rating puts the job back to processing
StoreRateJobReopens(tbl, job_id, rating, at) ==
  IF rating \notin {GoodDog, BadDog} \/ ~Exists(tbl, job_id)
  THEN [ok |-> FALSE, tbl |-> tbl]
  ELSE [ok |-> TRUE,
        tbl |-> [tbl EXCEPT ![job_id] =
                   [@ EXCEPT !.user_rating = rating, !.status = Processing,
                             !.rating_timestamp = PyInt(at),
                             !.updated_at = PyInt(at)]]]

\* faulty variant of rate_job: the first rating of a job is kept
StoreRateJobFirstWins(tbl, job_id, rating, at) ==
  IF rating \notin {GoodDog, BadDog} \/ ~Exists(tbl, job_id)
  THEN [ok |-> FALSE, tbl |-> tbl]
  ELSE [ok |-> TRUE,
        tbl |-> [tbl EXCEPT ![job_id] =
                   [@ EXCEPT !.user_rating =
                               IF @ = PyNone THEN rating ELSE @,
                             !.rating_timestamp = PyInt(at),
                             !.updated_at = PyInt(at)]]]

\* rate_job(job_id, rating) of the store at time at: [ok, tbl]
\* faulty variant of rate_job: updated_at is left as it was
StoreRateJobNoStamp(tbl, job_id, rating, at) ==
  IF rating \notin {GoodDog, BadDog} THEN [ok |-> FALSE, tbl |-> tbl]
  ELSE IF ~Exists(tbl, job_id) THEN [ok |-> FALSE, tbl |-> tbl]
       ELSE [ok |-> TRUE,
             tbl |-> [tbl EXCEPT ![job_id] =
                        [@ EXCEPT !.user_rating = rating,
                                  !.rating_timestamp = PyInt(at)]]]

StoreRateJob(tbl, job_id, rating, at) ==
  IF rating \notin {GoodDog, BadDog} THEN [ok |-> FALSE, tbl |-> tbl]
  ELSE IF ~Exists(tbl, job_id) THEN [ok |-> FALSE, tbl |-> tbl]
       ELSE [ok |-> TRUE,
             tbl |-> [tbl EXCEPT ![job_id] =
                        [@ EXCEPT !.user_rating = rating,
                                  !.rating_timestamp = PyInt(at),
                                  !.updated_at = PyInt(at)]]]

(***************************************************************************)
(* Operations.                                                             *)
(***************************************************************************)
NoTask ==
  [pc |-> "none", query |-> <<>>, outcome |-> [kind |-> "none"],
   dataset |-> PyNone, error |-> <<>>]

NoResponse == [op |-> "none"]

Init ==
  /\ jobs = [j \in JobIds |-> NoRow]
  /\ task = [j \in JobIds |-> NoTask]
  /\ writes = [j \in JobIds |-> <<>>]
  /\ ratingLog = [j \in JobIds |-> <<>>]
  /\ deleted = {}
  /\ now = 0
  /\ response = NoResponse

\* faulty variant: the id of a job whose task has ended is given out again
FreshIdsReused == {j \in JobIds : task[j].pc \in {"none", "done"}}

\* uuid4 never repeats: an id is fresh when no task was ever made for it
FreshIds == {j \in JobIds : task[j].pc = "none"}

RECURSIVE SumLen(_, _)
SumLen(f, S) ==
  IF S = {} THEN 0
  ELSE LET j == CHOOSE k \in S : TRUE IN Len(f[j]) + SumLen(f, S \ {j})

\* faulty variant of the submit handler: the task is added, and no row is
\* created for it
GenerateDatasetTaskOnly(query) ==
  /\ FreshIds # {}
  /\ LET job_id == CHOOSE j \in FreshIds : \A k \in FreshIds : j <= k
     IN task' = [task EXCEPT ![job_id] =
                   [NoTask EXCEPT !.pc = "pipeline", !.query = query]]
  /\ UNCHANGED <<jobs, writes, ratingLog, deleted, now, response>>

\* POST /api/datasets/generate: create_job, then add_task
GenerateDataset(query) ==
  /\ FreshIds # {}
  /\ LET job_id == CHOOSE j \in FreshIds : \A k \in FreshIds : j <= k
     IN /\ jobs' = [jobs EXCEPT ![job_id] = NewRow(query, now)]
        /\ task' = [task EXCEPT ![job_id] =
                      [NoTask EXCEPT !.pc = "pipeline", !.query = query]]
  /\ UNCHANGED <<writes, ratingLog, deleted, now, response>>

\* faulty variant of (v or default): the default is forgotten
PyOrMissing(v, default) == v

\* (v or default)
PyOr(v, default) == IF Truthy(v) THEN v ELSE default

\* GET /api/datasets/{job_id}/results: [found |-> FALSE] for the 404, else
\* the fields of the DatasetResult it builds, or the exception of get_job
DatasetResult(got) ==
  IF ~got.found THEN [found |-> FALSE]
  ELSE IF got.exc THEN [found |-> TRUE, exc |-> TRUE]
       ELSE [found |-> TRUE, exc |-> FALSE,
             status |-> got.job.status,
             query |-> got.job.query,
             dataset |-> PyOr(got.job.dataset, EmptyList),
             sources |-> PyOr(got.job.sources, EmptyList),
             total_records |-> PyOr(got.job.total_records, PyInt(0)),
             validation_status |-> got.job.validation_status,
             quality_score |-> got.job.quality_score,
             validation_notes |-> got.job.validation_notes,
             user_rating |-> got.job.user_rating]

GetDatasetResults(tbl, job_id) == DatasetResult(GetJob(tbl, job_id))

\* the run of the task of job_id, once its pipeline call has ended
RunOf(job_id) == Runs[task[job_id].query, task[job_id].outcome]

\* Step 1: await create_dataset_async(query) returns the runner's result
PipelineReturns(job_id, kickoff) ==
  /\ task[job_id].pc = "pipeline"
  /\ task' = [task EXCEPT ![job_id].pc = "returned",
                          ![job_id].outcome = kickoff,
                          ![job_id].dataset = Runs[task[job_id].query, kickoff].dataset]
  /\ UNCHANGED <<jobs, writes, ratingLog, deleted, now, response>>

\* Step 1: await create_dataset_async(query) raises
PipelineRaises(job_id, error_message) ==
  /\ task[job_id].pc = "pipeline"
  /\ task' = [task EXCEPT ![job_id].pc = "raised",
                          ![job_id].outcome = [kind |-> "raised", msg |-> error_message],
                          ![job_id].error = error_message]
  /\ UNCHANGED <<jobs, writes, ratingLog, deleted, now, response>>

\* the two ends of step 2
RawDataSaved(job_id, saved) ==
  IF saved.exc
  THEN /\ task' = [task EXCEPT ![job_id].pc = "raised",
                               ![job_id].error = saved.msg]
       /\ UNCHANGED <<jobs, writes>>
  ELSE /\ jobs' = saved.v
       /\ task' = [task EXCEPT ![job_id].pc = "saved"]
       /\ writes' = [writes EXCEPT ![job_id] = Append(@, "raw_data")]

\* Step 2: save the raw data; a failed binding goes to the except branch
SaveRawData(job_id) ==
  /\ task[job_id].pc = "returned"
  /\ RawDataSaved(job_id, UpdateJob(jobs, job_id, RunOf(job_id).raw_data, now))
  /\ UNCHANGED <<ratingLog, deleted, now, response>>

\* the update_job call that sets the status, and the exception caught
StatusSaved(job_id, run) ==
  /\ jobs' = UpdateJob(jobs, job_id, run.status, now).v
  /\ task' = [task EXCEPT ![job_id].pc = "done",
                          ![job_id].error = IF run.caught.exc THEN run.caught.msg ELSE @]
  /\ writes' = [writes EXCEPT ![job_id] = Append(@, "status")]

\* Steps 3 and 4: the rest of the try block, and the except branch when it
\* raised; either way one update_job call that sets the status
FinishJob(job_id) ==
  /\ task[job_id].pc = "saved"
  /\ StatusSaved(job_id, RunOf(job_id))
  /\ UNCHANGED <<ratingLog, deleted, now, response>>

\* the except branch for an exception raised before the raw data was saved
HandleError(job_id) ==
  /\ task[job_id].pc = "raised"
  /\ StatusSaved(job_id, RunOf(job_id))
  /\ UNCHANGED <<ratingLog, deleted, now, response>>

\* POST /api/jobs/{job_id}/rate: 400 for a rating outside the two values, 404
\* for an unknown job, 500 when get_job raises or the store reports no row,
\* else 200.  The handler does not suspend between get_job and rate_job.
RateJobFound(tbl, job_id, rating, job) ==
  IF ~job.found THEN 404
  ELSE IF job.exc THEN 500
       ELSE IF StoreRateJob(tbl, job_id, rating, 0).ok THEN 200 ELSE 500

\* faulty variant of the rate handler: the rating is not validated
RateJobResponseUnchecked(tbl, job_id, rating) ==
  RateJobFound(tbl, job_id, rating, GetJob(tbl, job_id))

RateJobResponse(tbl, job_id, rating) ==
  IF rating \notin {GoodDog, BadDog} THEN 400
  ELSE RateJobFound(tbl, job_id, rating, GetJob(tbl, job_id))

RateJobEffect(job_id, rating) ==
  /\ SumLen(ratingLog, JobIds) < MaxRatings
  /\ IF RateJobResponse(jobs, job_id, rating) = 200
     THEN /\ jobs' = StoreRateJob(jobs, job_id, rating, now).tbl
          /\ ratingLog' = [ratingLog EXCEPT ![job_id] = Append(@, rating)]
     ELSE UNCHANGED <<jobs, ratingLog>>
  /\ UNCHANGED <<task, writes, deleted, now>>

RateJob(job_id, rating) == RateJobEffect(job_id, rating) /\ UNCHANGED response

\* DELETE /api/admin/jobs/{job_id}: 404 when the DELETE removed no row
DeleteJobResponse(tbl, job_id) == IF Exists(tbl, job_id) THEN 200 ELSE 404

DeleteJob(job_id) ==
  /\ Cardinality(deleted) < MaxDeletes
  /\ jobs' = DeleteRow(jobs, job_id)
  /\ deleted' = IF Exists(jobs, job_id) THEN deleted \cup {job_id} ELSE deleted
  /\ UNCHANGED <<task, writes, ratingLog, now, response>>

(***************************************************************************)
(* The requests as a client sees them: the same handlers, with the status  *)
(* code of the answer kept in response.                                    *)
(***************************************************************************)
RateJobAnswered(job_id, rating) ==
  /\ RateJobEffect(job_id, rating)
  /\ response' = [op |-> "rate", job_id |-> job_id, rating |-> rating,
                  code |-> RateJobResponse(jobs, job_id, rating)]

\* GET /api/datasets/{job_id}/results
ReadResultsCode(result) ==
  IF ~result.found THEN 404 ELSE IF result.exc THEN 500 ELSE 200

ReadResults(job_id) ==
  /\ response' = [op |-> "results", job_id |-> job_id,
                  code |-> ReadResultsCode(GetDatasetResults(jobs, job_id))]
  /\ UNCHANGED <<jobs, task, writes, ratingLog, deleted, now>>

\* GET /api/datasets/{job_id}/raw: 404 for an unknown job and for a falsy
\* raw_data, 500 when get_job raises, else the decoded raw_data
RawDataResult(got) ==
  IF ~got.found THEN [code |-> 404]
  ELSE IF got.exc THEN [code |-> 500]
       ELSE IF ~Truthy(got.job.raw_data) THEN [code |-> 404]
            ELSE [code |-> 200, raw_data |-> got.job.raw_data]

GetRawData(tbl, job_id) == RawDataResult(GetJob(tbl, job_id))

\* pd.DataFrame(dataset): a list gives a frame; a number or a text is not
\* accepted by the constructor
DataFrameRaises(dataset) == dataset.t # "list"

\* faulty variant of the download: an empty dataset is rendered too
CsvResultOfEmpty(got) ==
  IF ~got.found THEN 404
  ELSE IF got.exc THEN 500
       ELSE IF got.job.status # Completed THEN 400 ELSE 200

\* GET /api/datasets/{job_id}/download: 404 for an unknown job, 400 for a
\* job that is not completed or whose dataset is falsy, else the CSV file
\* written under /tmp; an exception of get_job or of pandas is a 500
CsvResult(got) ==
  IF ~got.found THEN 404
  ELSE IF got.exc THEN 500
       ELSE IF got.job.status # Completed THEN 400
            ELSE IF ~Truthy(got.job.dataset) THEN 400
                 ELSE IF DataFrameRaises(got.job.dataset) THEN 500 ELSE 200

DownloadDatasetCsv(tbl, job_id) == CsvResult(GetJob(tbl, job_id))

ReadDownload(job_id) ==
  /\ response' = [op |-> "download", job_id |-> job_id,
                  code |-> DownloadDatasetCsv(jobs, job_id)]
  /\ UNCHANGED <<jobs, task, writes, ratingLog, deleted, now>>

\* faulty variant of the raw data read: the row is consumed by the read
ReadRawConsumes(job_id) ==
  /\ response' = [op |-> "raw", job_id |-> job_id,
                  code |-> GetRawData(jobs, job_id).code]
  /\ jobs' = DeleteRow(jobs, job_id)
  /\ UNCHANGED <<task, writes, ratingLog, deleted, now>>

ReadRaw(job_id) ==
  /\ response' = [op |-> "raw", job_id |-> job_id,
                  code |-> GetRawData(jobs, job_id).code]
  /\ UNCHANGED <<jobs, task, writes, ratingLog, deleted, now>>

\* GET /api/queries/recent: two SELECTs over the rows, no column decoded
ReadRecentQueries ==
  /\ response' = [op |-> "recent", job_id |-> 0, code |-> 200]
  /\ UNCHANGED <<jobs, task, writes, ratingLog, deleted, now>>

\* the rows of the table that satisfy a condition on the rating column
RowsRated(tbl, ratings) ==
  {job_id \in JobIds : Exists(tbl, job_id) /\ tbl[job_id].user_rating \in ratings}

\* faulty variant of the statistics: every row is counted as rated
GetJobRatingStatsAllRows(tbl) ==
  [ total_rated |-> Cardinality({job_id \in JobIds : Exists(tbl, job_id)}),
    good_dogs |-> Cardinality(RowsRated(tbl, {GoodDog})),
    bad_dogs |-> Cardinality(RowsRated(tbl, {BadDog})) ]

\* get_job_rating_stats(): the three COUNT(*) queries; the two percentages
\* are computed from these counts and are left out
GetJobRatingStats(tbl) ==
  [ total_rated |->
      Cardinality({job_id \in JobIds :
                     Exists(tbl, job_id) /\ tbl[job_id].user_rating # PyNone}),
    good_dogs |-> Cardinality(RowsRated(tbl, {GoodDog})),
    bad_dogs |-> Cardinality(RowsRated(tbl, {BadDog})) ]

\* GET /api/jobs/rating-stats: counts of the rows by user_rating
ReadRatingStats ==
  /\ response' = [op |-> "rating-stats", job_id |-> 0, code |-> 200,
                  stats |-> GetJobRatingStats(jobs)]
  /\ UNCHANGED <<jobs, task, writes, ratingLog, deleted, now>>

\* GET /api/admin/stats: counts of the rows by status
ReadDatabaseStats ==
  /\ response' = [op |-> "stats", job_id |-> 0, code |-> 200]
  /\ UNCHANGED <<jobs, task, writes, ratingLog, deleted, now>>

\* get_all_jobs decodes dataset and sources of every row
AllJobsRaises(tbl, decode) ==
  \E job_id \in JobIds :
    /\ Exists(tbl, job_id)
    /\ \/ decode[tbl[job_id].dataset, EmptyList].exc
       \/ decode[tbl[job_id].sources, EmptyList].exc

\* GET /api/admin/jobs
ReadAllJobs ==
  /\ response' = [op |-> "jobs", job_id |-> 0,
                  code |-> IF AllJobsRaises(jobs, Decoded) THEN 500 ELSE 200]
  /\ UNCHANGED <<jobs, task, writes, ratingLog, deleted, now>>

Next ==
  \/ \E query \in Queries : GenerateDataset(query)
  \/ \E job_id \in JobIds, kickoff \in Kickoffs : PipelineReturns(job_id, kickoff)
  \/ \E job_id \in JobIds, e \in RaisedErrors : PipelineRaises(job_id, e)
  \/ \E job_id \in JobIds : SaveRawData(job_id)
  \/ \E job_id \in JobIds : FinishJob(job_id)
  \/ \E job_id \in JobIds : HandleError(job_id)
  \/ \E job_id \in JobIds, rating \in Ratings : RateJob(job_id, rating)
  \/ \E job_id \in JobIds : DeleteJob(job_id)

Spec == Init /\ [][Next]_vars

\* once the awaited pipeline call has ended, the task runs to its end, and
\* so does the except branch: the steps after the await do not wait
TaskStep(job_id) == SaveRawData(job_id) \/ FinishJob(job_id) \/ HandleError(job_id)

FairSpec == Init /\ [][Next]_vars /\ \A job_id \in JobIds : WF_vars(TaskStep(job_id))

(***************************************************************************)
(* The service in time: the clock advances by days, and old jobs are       *)
(* purged.                                                                 *)
(***************************************************************************)
Tick ==
  /\ now < MaxTime
  /\ now' = now + 1
  /\ UNCHANGED <<jobs, task, writes, ratingLog, deleted, response>>

\* datetime.now().day: the service is started on the first day of a month
DayOfMonth(at) == at + 1

\* the rows the DELETE of cleanup_old_jobs removes for a cutoff
OlderThan(tbl, cutoff) ==
  {job_id \in JobIds : Exists(tbl, job_id) /\ tbl[job_id].created_at.n < cutoff}

\* JobDatabase.cleanup_old_jobs(days) at time at: today's midnight with its
\* day of the month replaced by day - days, which datetime.replace refuses
\* when that is not a day of the month; else the DELETE and its rowcount
CleanupOldJobs(tbl, days, at) ==
  IF DayOfMonth(at) - days < 1
  THEN Raise(<<"d","a","y"," ","i","s"," ","o","u","t"," ","o","f"," ","r","a","n","g","e"," ","f","o","r"," ","m","o","n","t","h">>)
  ELSE Ok([tbl |-> [job_id \in JobIds |->
                      IF job_id \in OlderThan(tbl, at - days) THEN NoRow
                      ELSE tbl[job_id]],
           count |-> Cardinality(OlderThan(tbl, at - days))])

\* the two ends of the cleanup handler: the exception is not caught, so the
\* answer is a 500; else the message with the count
CleanupAnswered(days, cleaned) ==
  IF cleaned.exc
  THEN /\ response' = [op |-> "cleanup", days |-> days, code |-> 500]
       /\ UNCHANGED <<jobs, deleted>>
  ELSE /\ response' = [op |-> "cleanup", days |-> days, code |-> 200,
                       deleted_count |-> cleaned.v.count]
       /\ jobs' = cleaned.v.tbl
       /\ deleted' = deleted \cup OlderThan(jobs, now - days)

\* POST /api/admin/cleanup?days=N
CleanupRequest(days) ==
  /\ CleanupAnswered(days, CleanupOldJobs(jobs, days, now))
  /\ UNCHANGED <<task, writes, ratingLog, now>>

\* the pipeline outcomes of ClockSpec: a result that is saved and parsed,
\* and an error raised out of the pipeline call
ClockKickoffs == {KickFenced}
ClockErrors == {ErrNoKey}

NextClock ==
  \/ \E query \in Queries : GenerateDataset(query)
  \/ \E job_id \in JobIds, kickoff \in ClockKickoffs : PipelineReturns(job_id, kickoff)
  \/ \E job_id \in JobIds, e \in ClockErrors : PipelineRaises(job_id, e)
  \/ \E job_id \in JobIds : SaveRawData(job_id)
  \/ \E job_id \in JobIds : FinishJob(job_id)
  \/ \E job_id \in JobIds : HandleError(job_id)
  \/ \E job_id \in JobIds, rating \in Ratings : RateJob(job_id, rating)
  \/ \E days \in 0..MaxDays : CleanupRequest(days)
  \/ \E job_id \in JobIds : ReadResults(job_id)
  \/ Tick

\* the service with a clock that advances
ClockSpec == Init /\ [][NextClock]_vars

NextApi ==
  \/ \E query \in Queries : GenerateDataset(query)
  \/ \E job_id \in JobIds, kickoff \in Kickoffs : PipelineReturns(job_id, kickoff)
  \/ \E job_id \in JobIds, e \in RaisedErrors : PipelineRaises(job_id, e)
  \/ \E job_id \in JobIds : SaveRawData(job_id)
  \/ \E job_id \in JobIds : FinishJob(job_id)
  \/ \E job_id \in JobIds : HandleError(job_id)
  \/ \E job_id \in JobIds, rating \in Ratings : RateJobAnswered(job_id, rating)
  \/ \E job_id \in JobIds : ReadResults(job_id)
  \/ \E job_id \in JobIds : ReadRaw(job_id)
  \/ \E job_id \in JobIds : ReadDownload(job_id)
  \/ ReadRecentQueries
  \/ ReadRatingStats
  \/ ReadDatabaseStats
  \/ ReadAllJobs

\* the service with the answers to its clients observed; rows are not
\* deleted here
ApiSpec == Init /\ [][NextApi]_vars

(***************************************************************************)
(* The administration of the table: rows are deleted by id and purged by   *)
(* age while tasks run, and the answers are observed.                      *)
(***************************************************************************)
\* DELETE /api/admin/jobs/{job_id}, with its answer
DeleteJobAnswered(job_id) ==
  /\ jobs' = DeleteRow(jobs, job_id)
  /\ deleted' = IF Exists(jobs, job_id) THEN deleted \cup {job_id} ELSE deleted
  /\ response' = [op |-> "delete", job_id |-> job_id,
                  code |-> DeleteJobResponse(jobs, job_id)]
  /\ UNCHANGED <<task, writes, ratingLog, now>>

NextAdmin ==
  \/ \E query \in Queries : GenerateDataset(query)
  \/ \E job_id \in JobIds, kickoff \in ClockKickoffs : PipelineReturns(job_id, kickoff)
  \/ \E job_id \in JobIds, e \in ClockErrors : PipelineRaises(job_id, e)
  \/ \E job_id \in JobIds : SaveRawData(job_id)
  \/ \E job_id \in JobIds : FinishJob(job_id)
  \/ \E job_id \in JobIds : HandleError(job_id)
  \/ \E job_id \in JobIds : DeleteJobAnswered(job_id)
  \/ \E days \in 0..MaxDays : CleanupRequest(days)
  \/ \E job_id \in JobIds : ReadResults(job_id)
  \/ Tick

AdminSpec == Init /\ [][NextAdmin]_vars

(***************************************************************************)
(* The parsing of step 3 over the results with a result text, with the     *)
(* results read back.                                                      *)
(***************************************************************************)
NextParse ==
  \/ \E query \in Queries : GenerateDataset(query)
  \/ \E job_id \in JobIds, kickoff \in Kickoffs \cup Extractions :
       PipelineReturns(job_id, kickoff)
  \/ \E job_id \in JobIds, e \in RaisedErrors : PipelineRaises(job_id, e)
  \/ \E job_id \in JobIds : SaveRawData(job_id)
  \/ \E job_id \in JobIds : FinishJob(job_id)
  \/ \E job_id \in JobIds : HandleError(job_id)
  \/ \E job_id \in JobIds : ReadResults(job_id)

ParseSpec == Init /\ [][NextParse]_vars

(***************************************************************************)
(* Properties.                                                             *)
(***************************************************************************)
HasRow(j) == Exists(jobs, j)
IsTerminal(j) == HasRow(j) /\ jobs[j].status \in TerminalStatuses
Submitted(j) == task[j].pc # "none"
Done(j) == task[j].pc = "done"
Results(j) == GetDatasetResults(jobs, j)

\* the pipeline run of job j ended in an error: raised out of the pipeline
\* call, or raised by crew.kickoff() and caught inside the runner
PipelineError(j) == task[j].outcome.kind \in {"raised", "exc"}
CaughtInRunner(j) == task[j].outcome.kind = "exc"
RaisedOut(j) == task[j].outcome.kind = "raised"
ReturnedWithoutError(j) == task[j].outcome.kind \in {"raw", "noraw"}

\* the text, compared case-insensitively, contains one of the quota keywords
HasQuotaKeyword(text) ==
  \E keyword \in QuotaKeywords : Contains(keyword, LowerText(text))

\* validation_notes of job j contains the text
NotesContain(j, text) ==
  jobs[j].validation_notes.t = "str" /\ Contains(text, jobs[j].validation_notes.s)

\* the value the step 2 call of job j stored in raw_data
RawDataWritten(j) == RunOf(j).raw_data.v[1][2]

\* C1: a job's row is created with status processing, and the only changes
\* of the status of a row are processing -> completed, processing -> failed
\* and processing -> quota_exceeded, whatever operation is taken.
C1_StatusMonotonic ==
  [][\A j \in JobIds :
       /\ (~HasRow(j) /\ Exists(jobs', j)) => jobs'[j].status = Processing
       /\ (HasRow(j) /\ Exists(jobs', j) /\ jobs'[j].status # jobs[j].status)
            => (jobs[j].status = Processing /\ jobs'[j].status \in TerminalStatuses)
    ]_vars

\* a job in a terminal status that was rated, while the task of another job
\* has run to its end
C1_Witness ==
  \E j, k \in JobIds :
    /\ j # k /\ IsTerminal(j) /\ Done(j) /\ ratingLog[j] # <<>>
    /\ Done(k) /\ IsTerminal(k) /\ jobs[k].status # jobs[j].status

\* C2: for every submitted job whose row was not deleted, as long as its
\* task has made no write, GET results finds the job (no 404) and returns
\* status processing, an empty dataset, empty sources and total_records 0;
\* this holds from the state submit leaves on.
C2_ProcessingBeforeFirstWrite ==
  \A j \in JobIds :
    (Submitted(j) /\ writes[j] = <<>> /\ j \notin deleted)
      => /\ Results(j).found /\ ~Results(j).exc
         /\ Results(j).status = Processing
         /\ Results(j).dataset = EmptyList
         /\ Results(j).sources = EmptyList
         /\ Results(j).total_records = PyInt(0)

\* the pipeline call of a job has returned, its task has not written yet,
\* the job was rated meanwhile, and GET results shows it processing
C2_Witness ==
  \E j \in JobIds :
    /\ task[j].pc = "returned" /\ writes[j] = <<>> /\ j \notin deleted
    /\ ratingLog[j] # <<>>
    /\ Results(j).found /\ Results(j).status = Processing

\* C3 as stated: every job in a terminal status had raw_data written exactly
\* once, before the write of the status.
C3_RawWrittenExactlyOnce ==
  \A j \in JobIds : IsTerminal(j) => writes[j] = <<"raw_data", "status">>

\* C3, amended: for every job in a terminal status, raw_data was written at
\* most once: exactly once, before the write of the status, when the
\* pipeline call returned, and never when it raised; and a raw_data column,
\* once written, keeps the value that was written.
C3_RawWrittenAtMostOnce ==
  \A j \in JobIds :
    /\ IsTerminal(j) =>
         IF RaisedOut(j)
         THEN writes[j] = <<"status">>
         ELSE writes[j] = <<"raw_data", "status">>
    /\ HasRow(j) =>
         jobs[j].raw_data =
           IF \E i \in 1..Len(writes[j]) : writes[j][i] = "raw_data"
           THEN RawDataWritten(j) ELSE PyNone

\* a completed job whose raw data was written before its status, rated
\* since
C3_Witness ==
  \E j \in JobIds :
    /\ IsTerminal(j) /\ writes[j] = <<"raw_data", "status">>
    /\ jobs[j].raw_data = RawDataWritten(j) /\ jobs[j].raw_data # PyNone
    /\ ratingLog[j] # <<>>

\* C4 as stated: a pipeline error without a quota keyword, raised out of the
\* pipeline call or caught inside the runner, ends the job as failed, with
\* empty records and the error text in validation_notes.
C4_OtherErrorsFail ==
  \A j \in JobIds :
    (Done(j) /\ HasRow(j) /\ PipelineError(j) /\ ~HasQuotaKeyword(task[j].outcome.msg))
      => /\ jobs[j].status = Failed
         /\ Results(j).dataset = EmptyList
         /\ NotesContain(j, task[j].outcome.msg)

\* C5: a pipeline error whose text contains a quota keyword, in any case of
\* letters, ends the job as quota_exceeded with empty records, whether it
\* was raised out of the pipeline call or caught inside the runner (which
\* then reports validation_status quota_exceeded).
C5_QuotaErrorsEndQuotaExceeded ==
  \A j \in JobIds :
    (Done(j) /\ HasRow(j) /\ PipelineError(j) /\ HasQuotaKeyword(task[j].outcome.msg))
      => /\ jobs[j].status = QuotaExceeded
         /\ Results(j).dataset = EmptyList
         /\ CaughtInRunner(j) =>
              DictGet(task[j].dataset, KValidationStatus, PyNone) = QuotaExceeded

\* a job ended quota_exceeded by an error raised out of the pipeline call,
\* another by an error caught in the runner whose keyword is in capitals
C5_Witness ==
  \E j, k \in JobIds :
    /\ Done(j) /\ RaisedOut(j) /\ HasRow(j) /\ jobs[j].status = QuotaExceeded
    /\ Done(k) /\ task[k].outcome = KickRateLimit /\ HasRow(k)
    /\ jobs[k].status = QuotaExceeded

\* C6 as stated: a job that ends quota_exceeded has the original error text
\* of the pipeline in validation_notes, on every path.
C6_QuotaNotesCarryError ==
  \A j \in JobIds :
    (Done(j) /\ HasRow(j) /\ jobs[j].status = QuotaExceeded /\ PipelineError(j))
      => NotesContain(j, task[j].outcome.msg)

\* C7: for every job, GET results shows a dataset or sources that are not
\* empty only when the status is completed; processing, failed and
\* quota_exceeded jobs have empty records and empty sources.
C7_DataOnlyWhenCompleted ==
  \A j \in JobIds :
    HasRow(j) =>
      /\ Results(j).found /\ ~Results(j).exc
      /\ Results(j).status \in {Processing} \cup TerminalStatuses
      /\ Results(j).status # Completed =>
           (Results(j).dataset = EmptyList /\ Results(j).sources = EmptyList)

\* a completed job with records and sources next to a failed job
C7_Witness ==
  \E j, k \in JobIds :
    /\ HasRow(j) /\ Results(j).status = Completed
    /\ Results(j).dataset # EmptyList /\ Results(j).sources # EmptyList
    /\ HasRow(k) /\ Results(k).status = Failed

\* C8 as stated: whatever the pipeline returns without error, the job ends
\* completed.
C8_ExtractionNeverFails ==
  \A j \in JobIds :
    (Done(j) /\ HasRow(j) /\ ReturnedWithoutError(j)) => jobs[j].status = Completed

\* C9: a job whose pipeline call has returned or raised reaches a terminal
\* status unless it is deleted; a task that has ended leaves no job in
\* processing, and the exception its except branch caught is in
\* validation_notes; and a job whose pipeline call has not ended is
\* processing.
C9_Settled(j) ==
  /\ (HasRow(j) /\ task[j].pc = "pipeline") => jobs[j].status = Processing
  /\ (HasRow(j) /\ Done(j)) => IsTerminal(j)
  /\ (HasRow(j) /\ Done(j) /\ task[j].error # <<>>) => NotesContain(j, task[j].error)

C9_TaskSettlesJob ==
  /\ [](\A j \in JobIds : C9_Settled(j))
  /\ \A j \in JobIds :
       (task[j].pc \in {"returned", "raised"}) ~> (~HasRow(j) \/ IsTerminal(j))

\* a job whose task caught an exception of the parsing, ended failed with
\* the exception text in validation_notes
C9_Witness ==
  \E j \in JobIds :
    /\ Done(j) /\ HasRow(j) /\ ReturnedWithoutError(j) /\ task[j].error # <<>>
    /\ jobs[j].status = Failed /\ NotesContain(j, task[j].error)

\* the columns a rating leaves alone
RatingFrame ==
  {"query", "status", "dataset", "sources", "raw_data", "total_records",
   "validation_status", "quality_score", "validation_notes", "created_at"}

\* C10: after any sequence of valid ratings of a job, in any status,
\* user_rating is the last rating applied, and applying a rating changes no
\* other job and none of the job's status, dataset, sources, raw_data and
\* validation columns.
C10_LastRatingWins ==
  /\ [](\A j \in JobIds :
          (HasRow(j) /\ ratingLog[j] # <<>>)
            => jobs[j].user_rating = ratingLog[j][Len(ratingLog[j])])
  /\ [][\A j \in JobIds :
          ratingLog'[j] # ratingLog[j]
            => /\ HasRow(j) /\ Exists(jobs', j)
               /\ \A c \in RatingFrame : jobs'[j][c] = jobs[j][c]
               /\ \A k \in JobIds \ {j} : jobs'[k] = jobs[k]
       ]_vars

\* a completed job with records, rated good_dog and then bad_dog
C10_Witness ==
  \E j \in JobIds :
    /\ HasRow(j) /\ jobs[j].status = Completed /\ Results(j).dataset # EmptyList
    /\ ratingLog[j] = <<GoodDog, BadDog>> /\ jobs[j].user_rating = BadDog

ValidRatings == {GoodDog, BadDog}

\* C11: a rate request whose rating is not good_dog or bad_dog is answered
\* 400 and changes no field of any job, whether or not the job exists, and
\* the store's rate_job returns false for it and leaves the table as it is.
C11_InvalidRatingRejected ==
  /\ [](\A j \in JobIds, rating \in Ratings \ ValidRatings :
          StoreRateJob(jobs, j, rating, now) = [ok |-> FALSE, tbl |-> jobs])
  /\ [][(response' # response /\ response'.op = "rate"
          /\ response'.rating \notin ValidRatings)
         => (response'.code = 400 /\ jobs' = jobs /\ ratingLog' = ratingLog)
       ]_vars

\* a job rated good_dog, whose next rate request carried another text and
\* was answered 400
C11_Witness ==
  /\ response.op = "rate" /\ response.code = 400
  /\ response.rating \notin ValidRatings
  /\ HasRow(response.job_id)
  /\ jobs[response.job_id].user_rating = GoodDog

ReadOps == {"results", "raw", "download", "recent", "rating-stats", "stats", "jobs"}

\* C12: no read (GET results, raw, download, recent queries, rating stats,
\* admin stats, admin list) changes a field of a job, creates a job or
\* deletes one, whatever the status of the jobs and whether or not the id it
\* names has a row.
C12_ReadsChangeNothing ==
  [][(response' # response /\ response'.op \in ReadOps)
       => (jobs' = jobs /\ task' = task)]_vars

\* the raw data of a job that has ended was read, and the download of an id
\* without a row was refused
C12_Witness ==
  \/ /\ response.op = "raw" /\ response.code = 200
     /\ IsTerminal(response.job_id)
     /\ \E k \in JobIds : ~HasRow(k)
  \/ /\ response.op = "download" /\ response.code = 404
     /\ ~HasRow(response.job_id)
     /\ \E k \in JobIds : IsTerminal(k)

\* the rows a purge with cutoff now - days is to delete
Purged(days) == {j \in JobIds : HasRow(j) /\ jobs[j].created_at.n < now - days}

\* C13: for every days >= 0 and every date, the purge completes, deletes
\* exactly the jobs created before the start of the day that lies days days
\* back, leaves every other job as it is, and returns the number deleted.
C13_PurgeCompletes ==
  [][(response' # response /\ response'.op = "cleanup")
       => /\ response'.code = 200
          /\ response'.deleted_count = Cardinality(Purged(response'.days))
          /\ \A j \in JobIds :
               jobs'[j] = IF j \in Purged(response'.days) THEN NoRow ELSE jobs[j]
     ]_vars

\* the pipeline call of job j returned a payload, which the task holds
PipelineReturned(j) == task[j].outcome.kind \in {"raw", "noraw", "exc"}
RawDataRead(j) == GetRawData(jobs, j)

\* C14: whatever payload the pipeline returned (a mapping or not), once the
\* task has ended, also with status failed, GET raw of the job gives exactly
\* that payload; and GET raw answers 404 only for an id without a row or a
\* job whose task never wrote a payload.
C14_RawPayloadVerbatim ==
  \A j \in JobIds :
    /\ (HasRow(j) /\ Done(j) /\ PipelineReturned(j))
         => RawDataRead(j) = [code |-> 200, raw_data |-> task[j].dataset]
    /\ (HasRow(j) /\ RawDataRead(j).code = 404)
         => \A i \in 1..Len(writes[j]) : writes[j][i] # "raw_data"

\* the records a read of the job shows are not empty
HasRecords(got) ==
  got.found /\ ~got.exc /\ PyOr(got.job.dataset, EmptyList) # EmptyList

\* the answer of a download, set against the row and what get_job reads
DownloadAsSpecified(code, row, got) ==
  /\ code = 200 <=> (row # NoRow /\ row.status = Completed /\ HasRecords(got))
  /\ row = NoRow => code = 404
  /\ (row # NoRow /\ row.status \in {Processing, Failed, QuotaExceeded})
       => code = 400
  /\ (row # NoRow /\ row.status = Completed /\ ~HasRecords(got)) => code = 400

DownloadOf(row, got) == DownloadAsSpecified(CsvResult(got), row, got)

C16_IdentityImmutable ==
  /\ [](\A j \in JobIds : HasRow(j) => jobs[j].query = PyStr(task[j].query))
  /\ [][\A j \in JobIds :
          /\ (HasRow(j) /\ Exists(jobs', j))
               => /\ jobs'[j].query = jobs[j].query
                  /\ jobs'[j].created_at = jobs[j].created_at
          /\ (~HasRow(j) /\ Exists(jobs', j))
               => /\ task[j].pc = "none"
                  /\ jobs'[j].created_at = PyInt(now)
                  /\ jobs'[j].query.s \in Queries
       ]_vars

\* a job submitted at time 0 that was updated by its task and rated at a
\* later time, next to a job submitted later
C16_Witness ==
  \E j \in JobIds :
    /\ HasRow(j) /\ Done(j) /\ ratingLog[j] # <<>>
    /\ jobs[j].created_at = PyInt(0) /\ jobs[j].updated_at.n > 0
    /\ \E k \in JobIds \ {j} : HasRow(k) /\ jobs[k].created_at.n > 0

\* C17: every background update and every successful rating of a job sets
\* updated_at to the time of the operation, so updated_at never decreases
\* and is never earlier than created_at; a step that does not change the
\* row, a read among them, leaves updated_at as it is.
C17_UpdatedAtAdvances ==
  /\ [](\A j \in JobIds :
          HasRow(j) => jobs[j].updated_at.n >= jobs[j].created_at.n)
  /\ [][\A j \in JobIds :
          (HasRow(j) /\ Exists(jobs', j))
            => /\ jobs'[j].updated_at.n >= jobs[j].updated_at.n
               /\ (writes'[j] # writes[j] \/ ratingLog'[j] # ratingLog[j])
                    => jobs'[j].updated_at = PyInt(now)
               /\ jobs'[j].updated_at # jobs[j].updated_at
                    => (writes'[j] # writes[j] \/ ratingLog'[j] # ratingLog[j])
       ]_vars

\* a job submitted at time 0, updated by its task at time 1, rated at time
\* 2 and then read
C17_Witness ==
  /\ response.op = "results" /\ response.code = 200
  /\ HasRow(response.job_id)
  /\ jobs[response.job_id].created_at = PyInt(0)
  /\ Len(writes[response.job_id]) = 2
  /\ jobs[response.job_id].rating_timestamp = PyInt(2)
  /\ jobs[response.job_id].updated_at = PyInt(2)

\* C18: no automatic retry: the pipeline of a job id is started once, by
\* the submission that created the id, and its outcome is never replaced;
\* a task that has ended, whatever its status, takes no further step; and
\* a submission, also of a query submitted before, makes a row under a
\* fresh id and leaves every earlier job and task as it is.
C18_NoRetry ==
  [][\A j \in JobIds :
       /\ (task'[j].pc = "pipeline" /\ task[j].pc # "pipeline")
            => (task[j].pc = "none" /\ ~HasRow(j) /\ Exists(jobs', j))
       /\ task[j].outcome.kind # "none" => task'[j].outcome = task[j].outcome
       /\ Done(j) => (task'[j] = task[j] /\ writes'[j] = writes[j])
       /\ (~HasRow(j) /\ Exists(jobs', j))
            => /\ task[j].pc = "none"
               /\ \A k \in JobIds \ {j} : jobs'[k] = jobs[k] /\ task'[k] = task[k]
    ]_vars

\* a job that ended failed, and a second job for the same query under
\* another id whose pipeline is running
C18_Witness ==
  \E j, k \in JobIds :
    /\ j # k /\ Done(j) /\ HasRow(j) /\ jobs[j].status = Failed
    /\ HasRow(k) /\ task[k].pc = "pipeline" /\ task[k].query = task[j].query

\* the columns the status-setting update_job call of a task writes
StatusColumns ==
  {"status", "dataset", "sources", "total_records", "validation_status",
   "quality_score", "validation_notes"}

\* the value the status-setting call of job j binds to a column
StatusWritten(j, column) ==
  LET bound == RunOf(j).status.v
  IN bound[CHOOSE i \in 1..Len(bound) : bound[i][1] = column][2]

\* C19: a read never sees a torn terminal update: whenever the row of a
\* job shows status completed, failed or quota_exceeded, it shows the
\* dataset, sources, total_records, validation_status, quality_score and
\* validation_notes that the task's update_job call wrote with that status,
\* and the row changes from processing to that status in one step.
C19_NoTornTerminalUpdate ==
  /\ [](\A j \in JobIds :
          IsTerminal(j) => \A c \in StatusColumns : jobs[j][c] = StatusWritten(j, c))
  /\ [][\A j \in JobIds :
          (HasRow(j) /\ Exists(jobs', j) /\ jobs'[j].status # jobs[j].status)
            => \A c \in StatusColumns : jobs'[j][c] = StatusWritten(j, c)
       ]_vars

\* both jobs ended, one completed with records and one failed, and each was
\* rated while the other was being processed
C19_Witness ==
  \E j, k \in JobIds :
    /\ IsTerminal(j) /\ jobs[j].status = Completed
    /\ jobs[j].dataset # PyNone /\ jobs[j].total_records # PyInt(0)
    /\ IsTerminal(k) /\ jobs[k].status = Failed
    /\ ratingLog[j] # <<>> /\ ratingLog[k] # <<>>

\* the step is a step of job j: of its task, a rating of it or its deletion
StepOf(j) ==
  \/ task'[j] # task[j]
  \/ writes'[j] # writes[j]
  \/ ratingLog'[j] # ratingLog[j]
  \/ (j \in deleted' /\ j \notin deleted)

\* C20: jobs are independent: in every interleaving of two jobs, a
\* background update, a rating or a delete of one job changes no field of
\* the other, and the status and records a job ends with are those its own
\* pipeline outcome gives, so two jobs with the same outcome end alike.
C20_JobsIndependent ==
  /\ [][\A j \in JobIds :
          StepOf(j) => \A k \in JobIds \ {j} : jobs'[k] = jobs[k]]_vars
  /\ [](\A j \in JobIds :
          (Done(j) /\ HasRow(j))
            => /\ jobs[j].status = StatusWritten(j, "status")
               /\ jobs[j].dataset = StatusWritten(j, "dataset"))
  /\ [](\A j, k \in JobIds :
          (Done(j) /\ HasRow(j) /\ Done(k) /\ HasRow(k)
             /\ task[j].outcome = task[k].outcome)
            => /\ jobs[j].status = jobs[k].status
               /\ jobs[j].dataset = jobs[k].dataset)

\* two jobs processed side by side ended differently, one completed and one
\* quota_exceeded, and the second was rated
C20_Witness ==
  \E j, k \in JobIds :
    /\ Done(j) /\ HasRow(j) /\ jobs[j].status = Completed
    /\ Done(k) /\ HasRow(k) /\ jobs[k].status = QuotaExceeded
    /\ ratingLog[k] # <<>> /\ ratingLog[j] = <<>>

\* the step is an answered delete-by-id
DeleteAnswered == response' # response /\ response'.op = "delete"

\* the step is a request and not a step of a task
RequestStep == task' = task /\ writes' = writes

\* C21: jobs disappear only through administrative deletion: delete-by-id
\* answers 200 exactly when a row with the id existed and 404 otherwise,
\* after it the id has no row, GET results for it answers 404 and every
\* other row is as it was, and a row disappears in no step other than a
\* delete of its id or a purge.
C21_OnlyDeletionRemoves ==
  /\ [][/\ \A j \in JobIds :
             (HasRow(j) /\ ~Exists(jobs', j))
               => /\ RequestStep
                  /\ j \in deleted' \ deleted
                  /\ response'.code = 200
                  /\ \/ response'.op = "delete" /\ response'.job_id = j
                     \/ response'.op = "cleanup"
        /\ DeleteAnswered
             => /\ response'.code = IF HasRow(response'.job_id) THEN 200 ELSE 404
                /\ ~GetDatasetResults(jobs', response'.job_id).found
                /\ \A k \in JobIds \ {response'.job_id} : jobs'[k] = jobs[k]
       ]_vars
  /\ [](\A j \in deleted : ~HasRow(j) /\ ~Results(j).found)
  /\ []((response.op = "results" /\ response.job_id \in deleted)
          => response.code = 404)

\* one of two jobs was deleted by id with answer 200, GET results for it
\* was then answered 404, and the other job is still there
C21_Witness ==
  /\ response.op = "results" /\ response.code = 404
  /\ response.job_id \in deleted
  /\ now = 0
  /\ \E k \in JobIds \ {response.job_id} : HasRow(k) /\ IsTerminal(k)

\* the result text of the first data element of a returned payload:
\* [has |-> TRUE, text] when the payload is a mapping whose data is a
\* non-empty list that starts with a mapping with a text under result
FirstResult(payload) ==
  IF payload.t # "dict" THEN [has |-> FALSE]
  ELSE LET data == DictGet(payload, KData, EmptyList)
       IN IF data.t # "list" \/ data.xs = <<>> THEN [has |-> FALSE]
          ELSE LET first_item == data.xs[1]
               IN IF first_item.t = "dict" /\ HasKey(first_item, KResult)
                       /\ DictGet(first_item, KResult, PyNone).t = "str"
                  THEN [has |-> TRUE, text |-> DictGet(first_item, KResult, PyNone).s]
                  ELSE [has |-> FALSE]

\* the JSON value of the first fenced code block of a text
FencedJson(text) ==
  LET m == CodeBlockSearch(text)
  IN IF ~m.found THEN [fenced |-> FALSE, ok |-> FALSE]
     ELSE LET loaded == JsonLoads(Strip(m.group))
          IN IF loaded.ok THEN [fenced |-> TRUE, ok |-> TRUE, v |-> loaded.v]
             ELSE [fenced |-> TRUE, ok |-> FALSE]

\* the task of job j has ended, its row is there, and the payload the
\* pipeline returned has a result text in its first data element
ParsedJob(j) ==
  /\ Done(j) /\ HasRow(j)
  /\ task[j].outcome.kind \in {"raw", "noraw"}
  /\ FirstResult(task[j].dataset).has

\* the result text of a parsed job
ResultText(j) == FirstResult(task[j].dataset).text

\* job j is read as completed with the five values
ReadAs(j, records, sources, validation_status, quality_score, validation_notes) ==
  /\ Results(j).found /\ ~Results(j).exc
  /\ Results(j).status = Completed
  /\ Results(j).dataset = records
  /\ Results(j).sources = sources
  /\ Results(j).validation_status = validation_status
  /\ Results(j).quality_score = quality_score
  /\ Results(j).validation_notes = validation_notes

\* job j is read as completed with the five values of the mapping, absent
\* ones defaulted
ReadAsObject(j, object) ==
  ReadAs(j, DictGet(object, KData, EmptyList),
            DictGet(object, KSources, EmptyList),
            DictGet(object, KValidationStatus, Completed),
            DictGet(object, KQualityScore, Unknown),
            DictGet(object, KValidationNotes, PyStr(<<>>)))

\* the result text of job j holds a fenced block with a JSON object
HasFencedObject(j) ==
  /\ ParsedJob(j)
  /\ FencedJson(ResultText(j)).ok
  /\ FencedJson(ResultText(j)).v.t = "dict"

\* C22: when the returned payload is a mapping whose data list starts with
\* an element whose result text holds a fenced code block with a JSON
\* object, the job is completed with that object's data as its records and
\* that object's sources as its sources, absent fields of the object being
\* [], [], "completed", "unknown" and ""; the sources and quality fields of
\* the outer payload are not used.
C22_FencedJsonRoundTrip ==
  \A j \in JobIds :
    HasFencedObject(j) => ReadAsObject(j, FencedJson(ResultText(j)).v)

\* a job ended whose payload carried a fenced object with data and sources
\* of its own, while the outer payload had other sources, another quality
\* score and other notes
C22_Witness ==
  \E j \in JobIds :
    /\ HasFencedObject(j)
    /\ HasKey(FencedJson(ResultText(j)).v, KData)
    /\ HasKey(FencedJson(ResultText(j)).v, KSources)
    /\ ~HasKey(FencedJson(ResultText(j)).v, KQualityScore)
    /\ DictGet(task[j].dataset, KSources, EmptyList) # Results(j).sources
    /\ DictGet(task[j].dataset, KQualityScore, Unknown) # Unknown
    /\ DictGet(task[j].dataset, KValidationNotes, PyStr(<<>>)) # PyStr(<<>>)

\* the result text of job j holds no JSON that step 3 can decode: no fenced
\* block, or a fenced block that is not JSON
HasNoParseableJson(j) ==
  /\ ParsedJob(j)
  /\ ~FencedJson(ResultText(j)).ok

\* the records of job j are the data list of the returned payload
RecordsAreOuterData(j) ==
  /\ Results(j).found /\ ~Results(j).exc
  /\ Results(j).status = Completed
  /\ Results(j).dataset = DictGet(task[j].dataset, KData, EmptyList)

\* C23: when the result text of the first data element holds no parseable
\* JSON, the job completes with the outer data list as its records and
\* with a validation_notes text that is not empty and tells of the parse
\* failure.
C23_UnparseableIsNoted ==
  \A j \in JobIds :
    HasNoParseableJson(j)
      => /\ RecordsAreOuterData(j)
         /\ Results(j).validation_notes.t = "str"
         /\ Results(j).validation_notes.s # <<>>

\* the JSON object between the first opening and the last closing brace of
\* a text
BraceJson(text) ==
  LET m == BraceSearch(text)
  IN IF ~m.found THEN [ok |-> FALSE]
     ELSE LET loaded == JsonLoads(m.group)
          IN IF loaded.ok /\ loaded.v.t = "dict"
             THEN [ok |-> TRUE, v |-> loaded.v] ELSE [ok |-> FALSE]

\* the result text of job j has no fenced block, and a JSON object in
\* braces
HasBraceObject(j) ==
  /\ ParsedJob(j)
  /\ ~FencedJson(ResultText(j)).fenced
  /\ BraceJson(ResultText(j)).ok

\* C24: when the result text of the first data element has no fenced code
\* block and holds a JSON object in braces, that object is decoded and the
\* job's records and sources are the object's data and sources, not the
\* outer data list.
C24_BraceFallback ==
  \A j \in JobIds :
    HasBraceObject(j)
      => /\ Results(j).found /\ ~Results(j).exc
         /\ Results(j).dataset = DictGet(BraceJson(ResultText(j)).v, KData, EmptyList)
         /\ Results(j).sources = DictGet(BraceJson(ResultText(j)).v, KSources, EmptyList)

\* the pipeline call of job j returned a payload that is no mapping, the
\* task has ended and the row is there
NonMappingJob(j) ==
  /\ Done(j) /\ HasRow(j)
  /\ PipelineReturned(j)
  /\ task[j].dataset.t # "dict"

\* the one record made of a payload that is no mapping
FallbackRecord(j) ==
  PyDict(<< <<KQuery, jobs[j].query>>,
            <<KResult, PyStr(PyToStr(task[j].dataset))>> >>)

\* C25: when the pipeline returns a payload that is not a mapping, the job
\* ends completed with exactly one record, {query: the job's query,
\* result: the payload as text}, with empty sources and total_records 1.
C25_NonMappingPayload ==
  \A j \in JobIds :
    NonMappingJob(j)
      => /\ Results(j).found /\ ~Results(j).exc
         /\ Results(j).status = Completed
         /\ Results(j).dataset = PyList(<<FallbackRecord(j)>>)
         /\ Results(j).sources = EmptyList
         /\ Results(j).total_records = PyInt(1)
         /\ jobs[j].sources = PyStr(<<"[", "]">>)

\* a job ended whose pipeline returned a text, which is the result of its
\* one record
C25_Witness ==
  \E j \in JobIds :
    /\ NonMappingJob(j)
    /\ task[j].dataset.t = "str"
    /\ Results(j).dataset.xs[1] = FallbackRecord(j)
    /\ DictGet(Results(j).dataset.xs[1], KResult, PyNone) = task[j].dataset

\* the two columns a rating writes
RatingColumns == {"user_rating", "rating_timestamp"}

\* the step is an update_job call of the task of job j on its row
TaskWrites(j) == writes'[j] # writes[j] /\ HasRow(j) /\ Exists(jobs', j)

\* the step applies a rating to job j
RatingApplied(j) == ratingLog'[j] # ratingLog[j]

\* C26: a rating applied while the job is processing is not lost: however
\* a valid rate request interleaves with the raw-result write and the
\* terminal write of the task, neither undoes the other, and the final job
\* has both the rating, with its timestamp, and the complete terminal
\* fields.
C26_RatingSurvivesProcessing ==
  /\ [][\A j \in JobIds :
          /\ TaskWrites(j) => \A c \in RatingColumns : jobs'[j][c] = jobs[j][c]
          /\ RatingApplied(j)
               => /\ \A c \in RatingFrame : jobs'[j][c] = jobs[j][c]
                  /\ jobs'[j].user_rating = ratingLog'[j][Len(ratingLog'[j])]
                  /\ jobs'[j].rating_timestamp = PyInt(now)
       ]_vars
  /\ [](\A j \in JobIds :
          (Done(j) /\ HasRow(j))
            => /\ \A c \in StatusColumns : jobs[j][c] = StatusWritten(j, c)
               /\ writes[j][1] = "raw_data" => jobs[j].raw_data = RawDataWritten(j)
               /\ ratingLog[j] # <<>>
                    => /\ jobs[j].user_rating = ratingLog[j][Len(ratingLog[j])]
                       /\ jobs[j].rating_timestamp # PyNone)

\* a job was rated on one day while it was processing, its task wrote the
\* raw result and the terminal fields on a later day, and the completed job
\* has the rating
C26_Witness ==
  \E j \in JobIds :
    /\ Done(j) /\ HasRow(j) /\ jobs[j].status = Completed
    /\ writes[j] = <<"raw_data", "status">>
    /\ jobs[j].raw_data # PyNone /\ jobs[j].dataset # PyNone
    /\ ratingLog[j] = <<GoodDog>> /\ jobs[j].user_rating = GoodDog
    /\ jobs[j].rating_timestamp.n < jobs[j].updated_at.n

\* the step is a step of the task of job j
TaskStepOf(j) == task'[j] # task[j] \/ writes'[j] # writes[j]

\* C27: a job deleted, by id or by purge, while its task is running is
\* never created again: every later write of the task, of the raw result,
\* of the terminal fields or of the error, changes no row, the id has no
\* row for every later read, and the other jobs are as they were.
C27_DeletedStaysDeleted ==
  /\ [][\A j \in deleted : TaskStepOf(j) => jobs' = jobs]_vars
  /\ [][\A j \in deleted : j \in deleted' /\ ~Exists(jobs', j)]_vars
  /\ [](\A j \in deleted : ~HasRow(j) /\ ~GetJob(jobs, j).found)
  /\ [](\A j \in deleted :
          (response.op = "results" /\ response.job_id = j) => response.code = 404)

\* the row of a job was deleted, its task made both its writes and ended,
\* the id has no row and a read of it was answered 404, and the other job
\* is there, completed
C27_Witness ==
  \E j \in deleted :
    /\ Done(j) /\ writes[j] = <<"raw_data", "status">>
    /\ ~HasRow(j)
    /\ response.op = "results" /\ response.job_id = j /\ response.code = 404
    /\ \E k \in JobIds \ {j} : IsTerminal(k) /\ jobs[k].status = Completed

\* C28: the row of a job is created before its task can run: the first
\* write of the task comes after create_job for its id, so unless the row
\* was deleted in between, no update of the task is applied to a missing
\* row.
C28_RowBeforeTask ==
  /\ [](\A j \in JobIds :
          /\ Submitted(j) => (HasRow(j) \/ j \in deleted)
          /\ HasRow(j) => Submitted(j)
          /\ writes[j] # <<>> => Submitted(j))
  /\ [][\A j \in JobIds :
          /\ (~HasRow(j) /\ Exists(jobs', j))
               => task[j].pc = "none" /\ task'[j].pc = "pipeline" /\ writes'[j] = <<>>
          /\ writes'[j] # writes[j]
               => /\ HasRow(j) \/ j \in deleted
                  /\ HasRow(j) => jobs'[j] # jobs[j] \/ jobs'[j].updated_at = PyInt(now)
       ]_vars

\* the first write of a task, of the raw result, was applied to the row
\* that the submit had created, while a second job was submitted and not
\* yet written to
C28_Witness ==
  \E j \in JobIds :
    /\ writes[j] = <<"raw_data">> /\ HasRow(j) /\ j \notin deleted
    /\ jobs[j].raw_data = RawDataWritten(j)
    /\ \E k \in JobIds \ {j} : Submitted(k) /\ writes[k] = <<>> /\ HasRow(k)

\* the existing jobs that were rated with success at least once
RatedJobs == {j \in JobIds : HasRow(j) /\ ratingLog[j] # <<>>}

\* C29: in every reachable state the user_rating of each job is unset or
\* one of good_dog and bad_dog, so the rating statistics have total_rated =
\* good_dogs + bad_dogs, and total_rated is the number of existing jobs
\* that were rated with success at least once.
C29_RatingStatsAddUp ==
  /\ \A j \in JobIds :
       HasRow(j) => jobs[j].user_rating \in {PyNone, GoodDog, BadDog}
  /\ GetJobRatingStats(jobs).total_rated
       = GetJobRatingStats(jobs).good_dogs + GetJobRatingStats(jobs).bad_dogs
  /\ GetJobRatingStats(jobs).total_rated = Cardinality(RatedJobs)

\* two jobs were rated, one good_dog and one bad_dog, and the first was
\* then deleted: the statistics count the one that is left
C29_Witness ==
  /\ GetJobRatingStats(jobs) = [total_rated |-> 1, good_dogs |-> 0, bad_dogs |-> 1]
  /\ \E j, k \in JobIds :
       /\ j \in deleted /\ ratingLog[j] = <<GoodDog>>
       /\ HasRow(k) /\ ratingLog[k] = <<BadDog>> /\ jobs[k].user_rating = BadDog

\* the number of elements of the records GET results returns for job j, or
\* -1 when they are no list
RecordCount(j) ==
  IF Results(j).dataset.t = "list" THEN Len(Results(j).dataset.xs) ELSE 0 - 1

\* C30: in every reachable state and for every job, total_records is the
\* number of elements of the stored records: 0 while processing and after
\* failed and quota_exceeded, and the length of the records after
\* completed.
C30_TotalRecordsIsLength ==
  \A j \in JobIds :
    (HasRow(j) /\ Results(j).found /\ ~Results(j).exc)
      => /\ Results(j).total_records = PyInt(RecordCount(j))
         /\ jobs[j].total_records = PyInt(RecordCount(j))
         /\ jobs[j].status # Completed => jobs[j].total_records = PyInt(0)

====
